---- MODULE Spec2Model ----
(***************************************************************************)
(* Authentication and authorization layer of the security-incident        *)
(* backend: the auth middleware (token extraction, multi-secret           *)
(* verification, identity hydration, password-expiry gate), the login     *)
(* route's password-age check, and the user store they read.              *)
(*                                                                         *)
(* Time is counted in ticks; TicksPerDay ticks make one day, so an age    *)
(* can be a whole number of days plus a fraction.                         *)
(***************************************************************************)
EXTENDS Integers, Sequences, FiniteSets, TLC

VARIABLES env, now, users, req, login, res, incidents, actions, posts, resources

vars == <<env, now, users, req, login, res, incidents, actions, posts, resources>>

(* ------------------------------ bounds -------------------------------- *)

\* resolution of the clock: ticks in one day (1000*60*60*24 ms in the code)
TicksPerDay == 2

\* the clock runs from 0 to MaxNow
MaxNow == 1

\* oldest password_changed_at of a stored row, in ticks before time 0
MaxPast == 4

\* requests POST /api/actions that may be in flight at once
MaxPosters == 2

\* rows the resources table ever holds
MaxResources == 2

\* most rows the actions table ever holds
MaxActions == 1

\* most actions created on the incident whose marks are followed
MaxMarked == 2

(* --------------------------- string helpers --------------------------- *)

\* String.prototype.toLowerCase on the strings the model uses
ToLower(s) ==
  CASE s = "SYSTEM-ADMIN" -> "system-admin"
    [] s = "System-Admin" -> "system-admin"
    [] s = "Defense-Admin" -> "defense-admin"
    [] s = "USER" -> "user"
    [] s = "/API"  -> "/api"
    [] s = "/AUTH" -> "/auth"
    [] s = "/ME"   -> "/me"
    [] OTHER -> s

\* String.prototype.toUpperCase on HTTP method names
ToUpper(s) ==
  CASE s = "get"   -> "GET"
    [] s = "patch" -> "PATCH"
    [] s = "post"  -> "POST"
    [] OTHER -> s

\* a || b on strings: the empty string is falsy
OrStr(a, b) == IF a # "" THEN a ELSE b

\* a URL is a sequence of atoms ("/api", "/auth", "?t=1", ...); its string is
\* their concatenation
LowerUrl(u) == [i \in DOMAIN u |-> ToLower(u[i])]

\* /<suffix>$/.test(u): the string ends with the suffix
EndsWith(u, suf) ==
  /\ Len(u) >= Len(suf)
  /\ SubSeq(u, Len(u) - Len(suf) + 1, Len(u)) = suf

(* --------------------------- configuration ---------------------------- *)

\* the fixed development fallback of the candidate list
DevAccessSecret == "dev_access_secret_change_me"

\* String(s).includes("dev_")
IncludesDev(s) == s \in {"dev_access_secret_change_me", "dev_refresh_secret_change_me", "my_dev_key"}

\* [a, b, c, d].filter(Boolean): unset variables (the empty string) drop out
RECURSIVE FilterBoolean(_)
FilterBoolean(s) ==
  IF s = <<>> THEN <<>>
  ELSE IF Head(s) = "" THEN FilterBoolean(Tail(s))
       ELSE <<Head(s)>> \o FilterBoolean(Tail(s))

CANDIDATE_ACCESS_SECRETS ==
  FilterBoolean(<<env.JWT_ACCESS_SECRET, env.JWT_SECRET, env.ACCESS_SECRET, DevAccessSecret>>)

isProd == env.NODE_ENV = "production"

\* a module whose load never throws
ModuleAlwaysLoaded == TRUE

\* the module-load guard: the module throws, and no request is served
AuthModuleLoaded ==
  ~(isProd /\ \E i \in DOMAIN CANDIDATE_ACCESS_SECRETS : IncludesDev(CANDIDATE_ACCESS_SECRETS[i]))

\* default of PASSWORD_MAX_AGE_DAYS
DefaultMaxAgeDays == 90

\* Number(process.env.PASSWORD_MAX_AGE_DAYS || 90): the variable is <<>> when
\* unset or empty and <<n>> when it holds the decimal string of n
PASSWORD_MAX_AGE_DAYS ==
  IF env.PASSWORD_MAX_AGE_DAYS = <<>> THEN DefaultMaxAgeDays ELSE env.PASSWORD_MAX_AGE_DAYS[1]

(* ------------------------------- tokens -------------------------------- *)

\* the claims of a token the middleware reads, and the identity it attaches
NoPayload == [id |-> 0, username |-> "", fullname |-> "", role |-> ""]

\* a signed token: its claims, the secret that signed it, its expiry time
NoToken == [id |-> 0, username |-> "", fullname |-> "", role |-> "", secret |-> "", exp |-> 0]

\* the decoded payload jwt.verify returns
Claims(token) ==
  [id |-> token.id, username |-> token.username, fullname |-> token.fullname,
   role |-> token.role]

\* a jwt.verify that looks at the expiry before the signature
jwtVerifyExpiryFirst(token, sec) ==
  IF now >= token.exp THEN [ok |-> FALSE, name |-> "TokenExpiredError", payload |-> NoPayload]
  ELSE IF token.secret # sec THEN [ok |-> FALSE, name |-> "JsonWebTokenError", payload |-> NoPayload]
  ELSE [ok |-> TRUE, name |-> "", payload |-> Claims(token)]

\* jwt.verify(token, sec): the signature is checked first, then the expiry
jwtVerify(token, sec) ==
  IF token.secret # sec THEN [ok |-> FALSE, name |-> "JsonWebTokenError", payload |-> NoPayload]
  ELSE IF now >= token.exp THEN [ok |-> FALSE, name |-> "TokenExpiredError", payload |-> NoPayload]
  ELSE [ok |-> TRUE, name |-> "", payload |-> Claims(token)]

\* the loop of verifyWithAnySecret from candidate i on, lastErr being the
\* name of the last error caught
RECURSIVE VerifyFrom(_, _, _)
VerifyFrom(token, i, lastErr) ==
  IF i > Len(CANDIDATE_ACCESS_SECRETS)
  THEN [ok |-> FALSE, name |-> (IF lastErr # "" THEN lastErr ELSE "Error"),
        payload |-> NoPayload, index |-> 0]
  ELSE LET r == jwtVerify(token, CANDIDATE_ACCESS_SECRETS[i]) IN
       IF r.ok THEN [ok |-> TRUE, name |-> "", payload |-> r.payload, index |-> i]
       ELSE VerifyFrom(token, i + 1, r.name)

\* a verifier that tries the first candidate only
verifyFirstCandidateOnly(token) ==
  LET r == jwtVerify(token, CANDIDATE_ACCESS_SECRETS[1]) IN
  [ok |-> r.ok, name |-> r.name, payload |-> r.payload, index |-> IF r.ok THEN 1 ELSE 0]

verifyWithAnySecret(token) == VerifyFrom(token, 1, "")

(* ----------------------------- user store ------------------------------ *)

\* the users table holds rows for these ids; user 2 is the administrator
\* whose requests edit the other rows
UserIds == {1, 2}

\* password_changed_at of a row: NULL, a value that is no date (new Date of
\* it has getTime() NaN, as for a zero date), or a time
NullDate      == [kind |-> "null", t |-> 0]
InvalidDate   == [kind |-> "invalid", t |-> 0]
DateAt(t)     == [kind |-> "date", t |-> t]

\* a stored password hash: its format prefix, the salt bcrypt drew and the
\* plaintext it hashes
NoHash == [prefix |-> "", salt |-> 0, plain |-> ""]

NoRow == [present |-> FALSE, username |-> "", fullname |-> "", role |-> "", status |-> "",
          password |-> NoHash, password_changed_at |-> NullDate]

\* SELECT ... FROM users WHERE id = ? LIMIT 1
RowById(id) == IF id \in DOMAIN users THEN users[id] ELSE NoRow

\* SELECT ... FROM users WHERE username = ? LIMIT 1
dbGetUserByUsername(username) ==
  IF \E i \in DOMAIN users : users[i].present /\ users[i].username = username
  THEN users[CHOOSE i \in DOMAIN users : users[i].present /\ users[i].username = username]
  ELSE NoRow

(* ------------------------- hydration and expiry ------------------------ *)

\* a hydration that keeps nothing of the token when the query fails
hydrateTrustsNothing(payload, dbOk) ==
  IF payload.id # 0 /\ ~dbOk
  THEN [id |-> 0, username |-> "", fullname |-> "", role |-> "", how |-> "dberr"]
  ELSE [id |-> payload.id, username |-> payload.username, fullname |-> payload.fullname,
        role |-> payload.role, how |-> "noid"]

\* hydrateUserIfNeeded(payload); dbOk is whether the query succeeds. `how`
\* records the path taken: no id, query failed, no row, row found
hydrateUserIfNeeded(payload, dbOk) ==
  LET same(how) == [id |-> payload.id, username |-> payload.username,
                    fullname |-> payload.fullname, role |-> payload.role, how |-> how]
      row       == RowById(payload.id)
  IN IF payload.id = 0 THEN same("noid")
     ELSE IF ~dbOk THEN same("dberr")
     ELSE IF ~row.present
          \* the "User not found" error is thrown inside the try and caught there
          THEN same("norow")
          \* SELECT id, username, fullname, role
          ELSE [id |-> payload.id, username |-> row.username, fullname |-> row.fullname,
                role |-> row.role, how |-> "row"]

\* Math.floor(diffMs / (1000*60*60*24))
WholeDays(diff) == diff \div TicksPerDay

\* checkPasswordExpiry(userId, role) of the middleware
checkPasswordExpiry(userId, role) ==
  IF ToLower(role) = "system-admin" THEN [expired |-> FALSE, days |-> 0]
  ELSE LET row == RowById(userId)
           c   == IF row.present THEN row.password_changed_at ELSE NullDate
       IN IF c.kind = "null" THEN [expired |-> TRUE, days |-> 9999]
          \* an invalid Date is truthy: days is NaN and NaN > max is false
          ELSE IF c.kind = "invalid" THEN [expired |-> FALSE, days |-> 0]
          ELSE [expired |-> WholeDays(now - c.t) > PASSWORD_MAX_AGE_DAYS,
                days |-> WholeDays(now - c.t)]

\* isPasswordExpired(user) of the login route: the age is not floored, so
\* diffDays > max iff diff > max * one day
isPasswordExpired(user) ==
  IF PASSWORD_MAX_AGE_DAYS <= 0 THEN FALSE
  ELSE LET c == user.password_changed_at IN
       IF c.kind = "null" THEN TRUE
       ELSE IF c.kind = "invalid" THEN TRUE
       ELSE (now - c.t) > PASSWORD_MAX_AGE_DAYS * TicksPerDay

\* the URL the whitelist reads: req.originalUrl, query string included
isExpiredWhitelist(method, url) ==
  LET m == ToUpper(OrStr(method, "GET"))
      u == LowerUrl(url)
  IN \/ m = "GET"   /\ EndsWith(u, <<"/api", "/auth", "/me">>)
     \/ m = "PATCH" /\ EndsWith(u, <<"/api", "/auth", "/password">>)
     \/ m = "POST"  /\ EndsWith(u, <<"/api", "/auth", "/logout">>)

(* --------------------------- auth middleware --------------------------- *)

\* the authorization header: a scheme prefix and what follows it
NoHeader == [scheme |-> "", token |-> NoToken]

\* authH.startsWith("Bearer ") ? authH.slice(7) : null
ExtractBearer(h) == IF h.scheme = "Bearer " THEN h.token ELSE NoToken

\* a request in the middleware. pc is where it stands: "idle" (none),
\* "hydrate" and "expiry" (awaiting that query), "done". status and code are
\* the response the middleware sent (0 when none), next whether it called
\* the next handler; at is the arrival time, how the hydration path taken,
\* threw whether an exception reached the outer catch
IdleReq == [pc |-> "idle", method |-> "", url |-> <<>>, header |-> NoHeader, at |-> 0,
            payload |-> NoPayload, user |-> NoPayload, how |-> "",
            expired |-> FALSE, status |-> 0, code |-> "", next |-> FALSE,
            threw |-> FALSE]

\* res.status(s).json({message, code})
Respond(r, s, c) == [r EXCEPT !.pc = "done", !.status = s, !.code = c]

\* a gate that goes on whatever the expiry check found
ExpiryGateAlwaysNext(r, expired) ==
  [r EXCEPT !.pc = "done", !.next = TRUE, !.expired = expired]

\* lines 126-134: the expiry gate, given the result of checkPasswordExpiry
ExpiryGate(r, expired) ==
  IF expired /\ ~isExpiredWhitelist(r.method, r.url)
  THEN [Respond(r, 403, "PASSWORD_EXPIRED") EXCEPT !.expired = expired]
  ELSE [r EXCEPT !.pc = "done", !.next = TRUE, !.expired = expired]

\* lines 119-126: req.user from the hydrated identity, then the start of
\* checkPasswordExpiry, which answers for a system-admin without a query
AfterHydrate(r, h) ==
  LET u  == [id |-> h.id,
             username |-> OrStr(OrStr(h.username, r.payload.username), ""),
             fullname |-> OrStr(OrStr(h.fullname, r.payload.fullname), ""),
             role |-> OrStr(OrStr(h.role, r.payload.role), "user")]
      r1 == [r EXCEPT !.user = u, !.how = h.how]
  IN IF ToLower(u.role) = "system-admin"
     THEN ExpiryGate(r1, checkPasswordExpiry(u.id, u.role).expired)
     ELSE [r1 EXCEPT !.pc = "expiry"]

\* lines 99-118: extract, verify, and the start of hydrateUserIfNeeded,
\* which returns the payload without a query when it carries no id
BeginStep(h, m, u) ==
  LET r0    == [IdleReq EXCEPT !.method = m, !.url = u, !.header = h, !.at = now]
      token == ExtractBearer(h)
  IN IF token = NoToken THEN Respond(r0, 401, "NO_TOKEN")
     ELSE LET v == verifyWithAnySecret(token) IN
          IF ~v.ok
          THEN Respond(r0, 401, IF v.name = "TokenExpiredError" THEN "EXPIRED_ACCESS"
                                ELSE "INVALID_ACCESS")
          ELSE LET r1 == [r0 EXCEPT !.payload = v.payload] IN
               IF v.payload.id = 0 THEN AfterHydrate(r1, hydrateUserIfNeeded(v.payload, TRUE))
               ELSE [r1 EXCEPT !.pc = "hydrate"]

\* an expiry step that goes on when its query fails
ExpiryStepIgnoresFailure(r, dbOk) ==
  IF ~dbOk THEN [r EXCEPT !.pc = "done", !.next = TRUE, !.threw = TRUE]
  ELSE ExpiryGate(r, checkPasswordExpiry(r.user.id, r.user.role).expired)

\* the hydration query answers (or fails: dbOk = FALSE)
HydrateStep(r, dbOk) == AfterHydrate(r, hydrateUserIfNeeded(r.payload, dbOk))

\* the expiry query answers, or fails and the outer catch responds 500
ExpiryStep(r, dbOk) ==
  IF ~dbOk THEN [Respond(r, 500, "") EXCEPT !.threw = TRUE]
  ELSE ExpiryGate(r, checkPasswordExpiry(r.user.id, r.user.role).expired)

\* the whole middleware on one request, its queries answered at once
AuthAtomic(h, m, u) ==
  LET a == BeginStep(h, m, u)
      b == IF a.pc = "hydrate" THEN HydrateStep(a, TRUE) ELSE a
  IN IF b.pc = "expiry" THEN ExpiryStep(b, TRUE) ELSE b

\* a request arrives and the middleware runs to its first query
AuthBegin(h, m, u) ==
  /\ AuthModuleLoaded
  /\ req.pc = "idle"
  /\ req' = BeginStep(h, m, u)
  /\ UNCHANGED <<env, now, users, login, res, incidents, actions, posts, resources>>

AuthHydrate(dbOk) ==
  /\ req.pc = "hydrate"
  /\ req' = HydrateStep(req, dbOk)
  /\ UNCHANGED <<env, now, users, login, res, incidents, actions, posts, resources>>

AuthExpiry(dbOk) ==
  /\ req.pc = "expiry"
  /\ req' = ExpiryStep(req, dbOk)
  /\ UNCHANGED <<env, now, users, login, res, incidents, actions, posts, resources>>

(* ------------------------------- login --------------------------------- *)

\* hashPassword: bcrypt draws a salt and writes the $2b$ format
hashPassword(plain, salt) == [prefix |-> "$2b$", salt |-> salt, plain |-> plain]

\* the salt of a new hash: not the salt of the hash it replaces
FreshSalt(old) == 1 - old.salt

\* normalize(h): the legacy $2y$ and $2a$ prefixes become $2b$
normalize(h) ==
  IF h.prefix \in {"$2y$", "$2a$"} THEN [h EXCEPT !.prefix = "$2b$"] ELSE h

\* comparePassword(plain, hash)
comparePassword(plain, h) == normalize(h) = hashPassword(plain, h.salt)

\* String.prototype.trim on the strings the model uses
Trim(s) ==
  CASE s = " u1 " -> "u1"
    [] s = " "    -> ""
    [] OTHER -> s

\* the fixed development fallback of the refresh secret
DevRefreshSecret == "dev_refresh_secret_change_me"

\* a signing secret whose fallback is not the literal of the candidate list
AccessSecretOtherFallback ==
  OrStr(OrStr(OrStr(env.JWT_ACCESS_SECRET, env.JWT_SECRET), env.ACCESS_SECRET), DevRefreshSecret)

\* the secret signAccess signs with: the first configured variable, else the
\* development fallback
ACCESS_SECRET ==
  OrStr(OrStr(OrStr(env.JWT_ACCESS_SECRET, env.JWT_SECRET), env.ACCESS_SECRET), DevAccessSecret)

\* lifetime of an access token in ticks: the default "30m" is under one tick,
\* so a token is valid at the tick it was issued and expired at the next
AccessTtl == 1

REFRESH_SECRET == OrStr(OrStr(env.JWT_REFRESH_SECRET, env.REFRESH_SECRET), DevRefreshSecret)

\* lifetime of a refresh token in ticks: the default is "30m" too
RefreshTtl == 1

\* buildUserPayload(u), for the row u of user id: the claims the middleware
\* reads
buildUserPayload(id, u) ==
  [id |-> id, username |-> u.username, fullname |-> OrStr(u.fullname, ""), role |-> u.role]

\* signAccess(payload)
signAccess(payload) ==
  [id |-> payload.id, username |-> payload.username, fullname |-> payload.fullname,
   role |-> payload.role, secret |-> ACCESS_SECRET, exp |-> now + AccessTtl]

\* signRefresh({ id })
signRefresh(payload) ==
  [NoToken EXCEPT !.id = payload.id, !.secret = REFRESH_SECRET, !.exp = now + RefreshTtl]

\* the response of the last POST /api/auth/login, with the username and the
\* password the request gave: status 0 when none yet
NoLogin == [status |-> 0, code |-> "", username |-> "", password |-> "",
            accessToken |-> NoToken, refreshToken |-> NoToken]

\* id of the row a username names (0 when none)
IdByUsername(username) ==
  IF \E i \in DOMAIN users : users[i].present /\ users[i].username = username
  THEN CHOOSE i \in DOMAIN users : users[i].present /\ users[i].username = username
  ELSE 0

\* a login that does not look at the status of the account
LoginIgnoresStatus(username, password, dbOk) ==
  LET uid  == IdByUsername(Trim(username))
      user == dbGetUserByUsername(Trim(username))
      out(s, c) == [status |-> s, code |-> c, username |-> username, password |-> password,
                    accessToken |-> NoToken, refreshToken |-> NoToken]
  IN IF username = "" \/ password = "" THEN out(400, "")
     ELSE IF ~dbOk THEN out(500, "")
     ELSE IF ~user.present \/ user.password = NoHash THEN out(401, "")
     ELSE IF ~comparePassword(password, user.password) THEN out(401, "")
     ELSE IF isPasswordExpired(user) THEN out(403, "PASSWORD_EXPIRED")
     ELSE [status |-> 200, code |-> "", username |-> username, password |-> password,
           accessToken |-> signAccess(buildUserPayload(uid, user)),
           refreshToken |-> signRefresh([id |-> uid])]

\* router.post("/login")
LoginResponse(username, password, dbOk) ==
  LET out(s, c) == [status |-> s, code |-> c, username |-> username, password |-> password,
                    accessToken |-> NoToken, refreshToken |-> NoToken]
      uid       == IdByUsername(Trim(username))
      user      == dbGetUserByUsername(Trim(username))
  IN IF username = "" \/ password = "" THEN out(400, "")
     ELSE IF ~dbOk THEN out(500, "")
     ELSE IF ~user.present \/ user.password = NoHash THEN out(401, "")
     ELSE IF ~comparePassword(password, user.password) THEN out(401, "")
     ELSE IF user.status # "" /\ user.status # "active" THEN out(403, "")
     ELSE IF isPasswordExpired(user) THEN out(403, "PASSWORD_EXPIRED")
     ELSE [status |-> 200, code |-> "", username |-> username, password |-> password,
           accessToken |-> signAccess(buildUserPayload(uid, user)),
           refreshToken |-> signRefresh([id |-> uid])]

\* the router imports the middleware module, so it serves only if that loaded
Login(username, password, dbOk) ==
  /\ AuthModuleLoaded
  /\ login' = LoginResponse(username, password, dbOk)
  /\ UNCHANGED <<env, now, users, req, res, incidents, actions, posts, resources>>

(* --------------------------- route responses --------------------------- *)

\* the response of the last request served by a route other than login:
\* route names it, by says who answered ("auth" the middleware, "gate" the
\* role gate, "handler" the route's handler), message tags the message text,
\* user is req.user, allowed the roles of the route's gate, target the id the
\* request names, current and password the current and the new password it
\* carries, next whether the auth middleware called next() on the request and
\* domain the domain field of the body (<<>> when undefined)
NoRes == [route |-> "", by |-> "", status |-> 0, message |-> "", user |-> NoPayload,
          allowed |-> {}, target |-> 0, current |-> "", password |-> "",
          next |-> FALSE, domain |-> <<>>]

\* the incidents table holds rows for these ids
IncidentIds == {1, 2}

NoIncident == [present |-> FALSE, reporter_id |-> 0, category_id |-> 0, status_id |-> 0,
               first_action_at |-> NullDate, resolved_at |-> NullDate,
               updated_at |-> NullDate]

NoIncidents == [i \in IncidentIds |-> NoIncident]

\* the requests POST /api/actions in flight. pc is where the request stands:
\* "idle" (none), "counted" (dbCountActionsByIncident has answered cnt and the
\* INSERT is not yet sent), "done" (answered with status); body is its body
\* and by the id of its identity
Posters == 1..MaxPosters

NoPostBody == [incident_id |-> 0, description |-> "", action_date_jalali |-> "", status_id |-> 0]

NoPost == [pc |-> "idle", cnt |-> 0, body |-> NoPostBody, by |-> 0, status |-> 0]

NoPosts == [p \in Posters |-> NoPost]

(* --------------------------- users module ------------------------------ *)

Roles == {"user", "defense-admin", "system-admin"}

\* the administrator's row and the token their requests bear
AdminRow == [present |-> TRUE, username |-> "admin", fullname |-> "Admin",
             role |-> "system-admin", status |-> "active",
             password |-> hashPassword("Admin123!", 0),
             password_changed_at |-> DateAt(0)]

AdminHeader ==
  [scheme |-> "Bearer ",
   token |-> [id |-> 2, username |-> "admin", fullname |-> "Admin", role |-> "system-admin",
              secret |-> ACCESS_SECRET, exp |-> MaxNow + 1]]

\* isSystemAdmin(req)
isSystemAdmin(r) == r.user.role = "system-admin"

\* a request body of PUT /api/users/:id: a field is <<>> when the body leaves
\* it out (undefined) and <<v>> when it gives v
NoBody == [username |-> <<>>, fullname |-> <<>>, role |-> <<>>, status |-> <<>>]

\* the fields dbUpdateUser receives: those of the body and passwordHash
NoFields == [username |-> <<>>, fullname |-> <<>>, role |-> <<>>, status |-> <<>>,
             passwordHash |-> <<>>]

\* the value a column has after SET col = ? for a given field, else the old
Given(f, old) == IF f = <<>> THEN old ELSE f[1]

\* a dbUpdateUser whose password write leaves password_changed_at alone
dbUpdateUserKeepsDate(id, fields) ==
  IF ~RowById(id).present THEN users
  ELSE [users EXCEPT ![id] =
          [@ EXCEPT !.username = Given(fields.username, @),
                    !.fullname = Given(fields.fullname, @),
                    !.role     = Given(fields.role, @),
                    !.status   = Given(fields.status, @),
                    !.password = Given(fields.passwordHash, @)]]

\* dbUpdateUser(id, fields): the users table after the UPDATE; the password
\* column and password_changed_at = NOW() are set together
dbUpdateUser(id, fields) ==
  IF ~RowById(id).present THEN users
  ELSE [users EXCEPT ![id] =
          [@ EXCEPT !.username = Given(fields.username, @),
                    !.fullname = Given(fields.fullname, @),
                    !.role     = Given(fields.role, @),
                    !.status   = Given(fields.status, @),
                    !.password = Given(fields.passwordHash, @),
                    !.password_changed_at =
                       IF fields.passwordHash = <<>> THEN @ ELSE DateAt(now)]]

\* router.put("/:id") of the users module, by the administrator; the whole
\* request, middleware included, runs between two steps of other requests.
\* The step is taken when the handler reaches dbUpdateUser; its refusals
\* (403, 400, 404, 409) write nothing
AdminUpdateUser(id, body) ==
  LET a    == AuthAtomic(AdminHeader, "PUT", <<"/api", "/users", "/:id">>)
      prev == RowById(id)
      u    == IF body.username = <<>> THEN "" ELSE Trim(body.username[1])
  IN /\ AuthModuleLoaded
     /\ a.next /\ isSystemAdmin(a)
     /\ id # 0
     /\ prev.present
     /\ body.username # <<>> =>
          /\ u # ""
          /\ u # prev.username => ~dbGetUserByUsername(u).present
     /\ body.role # <<>> => body.role[1] \in Roles
     /\ body.status # <<>> => body.status[1] \in {"active", "inactive"}
     /\ users' = dbUpdateUser(id,
                   [NoFields EXCEPT
                      !.username = IF body.username = <<>> THEN <<>> ELSE <<u>>,
                      !.fullname = IF body.fullname = <<>> THEN <<>>
                                   ELSE <<Trim(body.fullname[1])>>,
                      !.role     = body.role,
                      !.status   = body.status])
     /\ UNCHANGED <<env, now, req, login, res, incidents, actions, posts, resources>>

\* router.delete("/:id")
AdminDeleteUser(id) ==
  LET a == AuthAtomic(AdminHeader, "DELETE", <<"/api", "/users", "/:id">>) IN
  /\ AuthModuleLoaded
  /\ a.next /\ isSystemAdmin(a)
  /\ id # 0
  /\ a.user.id # id
  /\ RowById(id).present
  /\ users' = [users EXCEPT ![id] = NoRow]
  /\ UNCHANGED <<env, now, req, login, res, incidents, actions, posts, resources>>

\* the response has been written or the route's handler has returned: the
\* request is over
Complete ==
  /\ req.pc = "done"
  /\ req' = IdleReq
  /\ UNCHANGED <<env, now, users, login, res, incidents, actions, posts, resources>>

\* time passes
Tick ==
  /\ now < MaxNow
  /\ now' = now + 1
  /\ UNCHANGED <<env, users, req, login, res, incidents, actions, posts, resources>>

(* ------------------------ inputs and initial states -------------------- *)

\* process.env: the three access-secret variables, the two refresh-secret
\* variables, NODE_ENV and PASSWORD_MAX_AGE_DAYS
EnvWithRefresh(a, b, c, rj, r, node, age) ==
  [JWT_ACCESS_SECRET |-> a, JWT_SECRET |-> b, ACCESS_SECRET |-> c,
   JWT_REFRESH_SECRET |-> rj, REFRESH_SECRET |-> r,
   NODE_ENV |-> node, PASSWORD_MAX_AGE_DAYS |-> age]

\* an environment that sets no refresh secret
Env(a, b, c, node, age) == EnvWithRefresh(a, b, c, "", "", node, age)

\* rows the users table can hold for user 1
StoredDates == {NullDate, InvalidDate, DateAt(0 - MaxPast), DateAt(0)}

UserRows ==
  [present : {TRUE}, username : {"u1"}, fullname : {"U One"}, role : Roles,
   status : {"active", "inactive"},
   password : {hashPassword("Abc12345!", 0)}, password_changed_at : StoredDates]

\* a bearer header whose token carries the name claims of an earlier login
Bearer(id, role, secret, exp) ==
  [scheme |-> "Bearer ",
   token |-> [id |-> id, username |-> "u1-old", fullname |-> "U Old", role |-> role,
              secret |-> secret, exp |-> exp]]

\* requests: method and URL
UrlMe        == <<"/api", "/auth", "/me">>
UrlPassword  == <<"/api", "/auth", "/password">>
UrlLogout    == <<"/api", "/auth", "/logout">>
UrlIncidents == <<"/api", "/incidents">>

Requests ==
  { <<"GET", UrlMe>>, <<"PATCH", UrlPassword>>, <<"POST", UrlLogout>>,
    <<"GET", UrlIncidents>>, <<"POST", UrlMe>>,
    <<"GET", <<"/API", "/AUTH", "/ME">>>>,
    <<"GET", UrlMe \o <<"?t=1">>>>,
    <<"GET", UrlIncidents \o <<"?r=">> \o UrlMe>> }

(* ------------------------------ role gate ------------------------------ *)

\* a response of the auth middleware, as the response of the route
AuthRefusal(route, a) ==
  [NoRes EXCEPT !.route = route, !.by = "auth", !.status = a.status, !.message = a.code]

\* a gate that has no bypass for system-admin
allowRolesNoBypass(roles, user) ==
  IF user = NoPayload THEN 401
  ELSE IF ToLower(user.role) \notin { ToLower(r) : r \in roles } THEN 403
  ELSE 0

\* allowRoles(...roles) on a request whose req.user is user (NoPayload when
\* none was attached): the status it responds with, 0 when it calls next()
allowRoles(roles, user) ==
  LET allowed == { ToLower(r) : r \in roles }
      myRole  == ToLower(user.role)
  IN IF user = NoPayload THEN 401
     ELSE IF myRole = "system-admin" THEN 0
     ELSE IF myRole \notin allowed THEN 403
     ELSE 0

\* a route that runs its role gate without waiting for auth
GatedRouteGateFirst(h, roles) ==
  LET a  == AuthAtomic(h, "GET", UrlIncidents)
      g  == allowRoles(roles, a.user)
      r0 == [NoRes EXCEPT !.route = "allowRoles", !.allowed = roles, !.user = a.user,
                          !.next = a.next]
  IN /\ AuthModuleLoaded
     /\ res' = IF g # 0 THEN [r0 EXCEPT !.by = "gate", !.status = g]
               ELSE IF ~a.next THEN AuthRefusal("allowRoles", a)
               ELSE [r0 EXCEPT !.by = "handler", !.status = 200]
     /\ UNCHANGED <<env, now, users, req, login, incidents, actions, posts, resources>>

\* a route mounted as (authRequired, allowRoles(...roles), handler), such as
\* GET /api/incidents: the handler answers 200
GatedRoute(h, roles) ==
  LET a  == AuthAtomic(h, "GET", UrlIncidents)
      g  == allowRoles(roles, a.user)
      r0 == [NoRes EXCEPT !.route = "allowRoles", !.allowed = roles, !.user = a.user,
                          !.next = a.next]
  IN /\ AuthModuleLoaded
     /\ res' = IF ~a.next THEN AuthRefusal("allowRoles", a)
               ELSE IF g # 0 THEN [r0 EXCEPT !.by = "gate", !.status = g]
               ELSE [r0 EXCEPT !.by = "handler", !.status = 200]
     /\ UNCHANGED <<env, now, users, req, login, incidents, actions, posts, resources>>

(* -------------------- incidents and actions modules -------------------- *)

\* category_id of a physical incident (1 is cyber)
PhysicalCategory == 2

\* 'resolved' in the statuses table
CLOSED_STATUS_ID == 4

\* most actions an incident may have
ActionCap == 10

\* a calendar date: the ISO string a request gave, or the day CURDATE() read
NoDay       == [iso |-> "", day |-> 0]
IsoDay(s)   == [iso |-> s, day |-> 0]
CURDATE     == [iso |-> "", day |-> WholeDays(now)]

\* toGregorianISO(jalaliDate) on the dates the model uses: null (the empty
\* string) when the text is no yyyy/mm/dd date
toGregorianISO(j) ==
  CASE j = "1403/01/01" -> "2024-03-20"
    [] OTHER -> ""

\* the actions table is the sequence of the rows ever inserted, a row's id
\* being its position; deleted marks a row that DELETE removed. created_at
\* stands for added_at too: both are NOW() of the insert
ActionRow(incident_id, description, action_date, status_id, created_by) ==
  [incident_id |-> incident_id, description |-> description,
   action_date |-> IF action_date = "" THEN CURDATE ELSE IsoDay(action_date),
   status_id |-> status_id, created_by |-> created_by,
   created_at |-> DateAt(now), updated_at |-> NullDate, deleted |-> FALSE]

\* the row with this id is in the table
ActionLive(id) == id \in 1..Len(actions) /\ ~actions[id].deleted

\* dbCountActionsByIncident(incidentId)
dbCountActionsByIncident(incidentId) ==
  Cardinality({ a \in 1..Len(actions) : ActionLive(a) /\ actions[a].incident_id = incidentId })

\* dbGetIncidentOwnership(incidentId) and dbGetIncidentById(id): the row, or
\* NoIncident for null
dbGetIncidentOwnership(incidentId) ==
  IF incidentId \in DOMAIN incidents THEN incidents[incidentId] ELSE NoIncident

dbGetIncidentById(id) ==
  IF id \in DOMAIN incidents THEN incidents[id] ELSE NoIncident

\* dbMarkFirstActionIfNeeded(incidentId), on the incidents table t
dbMarkFirstActionIfNeeded(t, incidentId) ==
  [t EXCEPT ![incidentId].first_action_at = IF @ = NullDate THEN DateAt(now) ELSE @,
            ![incidentId].updated_at = DateAt(now)]

\* a mark that is written again each time the incident is closed
MarkResolvedEachTime(t, incidentId, statusId) ==
  IF statusId # CLOSED_STATUS_ID THEN t
  ELSE [t EXCEPT ![incidentId].resolved_at = DateAt(now),
                 ![incidentId].updated_at = DateAt(now)]

\* dbMarkResolvedIfClosed(incidentId, statusId), on the incidents table t
dbMarkResolvedIfClosed(t, incidentId, statusId) ==
  IF statusId # CLOSED_STATUS_ID THEN t
  ELSE [t EXCEPT ![incidentId].resolved_at = IF @ = NullDate THEN DateAt(now) ELSE @,
                 ![incidentId].updated_at = DateAt(now)]

\* UPDATE incidents SET status_id = ?, updated_at = NOW() WHERE id = ?
SetIncidentStatus(t, incidentId, statusId) ==
  [t EXCEPT ![incidentId].status_id = statusId, ![incidentId].updated_at = DateAt(now)]

\* the incidents table after dbCreateAction: status synchronised when the
\* action has one, first_action_at and resolved_at marked
IncidentsAfterCreate(incidentId, statusId) ==
  LET t1 == IF statusId # 0 THEN SetIncidentStatus(incidents, incidentId, statusId)
            ELSE incidents
      t2 == dbMarkFirstActionIfNeeded(t1, incidentId)
  IN IF statusId # 0 THEN dbMarkResolvedIfClosed(t2, incidentId, statusId) ELSE t2

\* the actions table after dbUpdateAction(id, {description, action_date,
\* status_id}): a field is <<>> when undefined; action_date <<"">> and
\* status_id <<0>> are null
ActionsAfterUpdate(id, description, action_date, status_id) ==
  IF ~ActionLive(id) \/ (description = <<>> /\ action_date = <<>> /\ status_id = <<>>)
  THEN actions
  ELSE [actions EXCEPT
          ![id].description = Given(description, @),
          ![id].action_date = IF action_date = <<>> THEN @
                              ELSE IF action_date[1] = "" THEN CURDATE
                              ELSE IsoDay(action_date[1]),
          ![id].status_id   = Given(status_id, @),
          ![id].updated_at  = DateAt(now)]

\* the incidents table after dbUpdateAction: a status other than null goes
\* to the incident of the action
IncidentsAfterUpdate(id, description, action_date, status_id) ==
  IF /\ ActionLive(id)
     /\ status_id # <<>> /\ status_id # <<0>>
     /\ actions[id].incident_id \in DOMAIN incidents
     /\ incidents[actions[id].incident_id].present
  THEN dbMarkResolvedIfClosed(
         SetIncidentStatus(incidents, actions[id].incident_id, status_id[1]),
         actions[id].incident_id, status_id[1])
  ELSE incidents

\* canReadIncident(user, incident) of the incidents module
canReadIncident(user, incident) ==
  IF user = NoPayload \/ ~incident.present THEN FALSE
  ELSE IF user.role = "system-admin" THEN TRUE
  ELSE IF user.role = "defense-admin" THEN incident.category_id = 2
  ELSE incident.reporter_id = user.id

\* a read check that gives a defense-admin every category
canReadAnyCategory(user, own) ==
  IF user = NoPayload \/ ~own.present THEN FALSE
  ELSE IF user.role \in {"system-admin", "defense-admin"} THEN TRUE
  ELSE own.reporter_id = user.id

\* canReadIncident(user, own) of the actions module
actions_canReadIncident(user, own) ==
  IF user = NoPayload \/ ~own.present THEN FALSE
  ELSE IF user.role = "system-admin" THEN TRUE
  ELSE IF user.role = "defense-admin" THEN own.category_id = 2
  ELSE own.reporter_id = user.id

\* canActOnIncident(user, own) of the actions module
canActOnIncident(user, own) ==
  IF user = NoPayload \/ ~own.present THEN FALSE
  ELSE IF user.role = "system-admin" THEN TRUE
  ELSE IF user.role = "defense-admin" THEN own.category_id = 2
  ELSE FALSE

UrlActions == <<"/api", "/actions">>

ActionsGate == {"defense-admin", "system-admin"}

\* a route's response: who answered, with what status and message
Answer(route, a, by, status, message, target) ==
  [NoRes EXCEPT !.route = route, !.by = by, !.status = status, !.message = message,
                !.user = a.user, !.next = a.next, !.target = target]

\* router.get("/:id") of the incidents module
IncidentsGet(h, id) ==
  LET route    == "GET /api/incidents/:id"
      a        == AuthAtomic(h, "GET", UrlIncidents \o <<"/:id">>)
      incident == dbGetIncidentById(id)
  IN /\ AuthModuleLoaded
     /\ res' = IF ~a.next THEN AuthRefusal(route, a)
               ELSE IF id = 0 THEN Answer(route, a, "handler", 400, "invalid id", id)
               ELSE IF ~incident.present THEN Answer(route, a, "handler", 404, "not found", id)
               ELSE IF ~canReadIncident(a.user, incident)
                    THEN Answer(route, a, "handler", 403, "forbidden", id)
               ELSE Answer(route, a, "handler", 200, "", id)
     /\ UNCHANGED <<env, now, users, req, login, incidents, actions, posts, resources>>

\* router.get("/:incidentId") of the actions module
ActionsList(h, incidentId) ==
  LET route == "GET /api/actions/:incidentId"
      a     == AuthAtomic(h, "GET", UrlActions \o <<"/:id">>)
      own   == dbGetIncidentOwnership(incidentId)
  IN /\ AuthModuleLoaded
     /\ res' = IF ~a.next THEN AuthRefusal(route, a)
               ELSE IF incidentId = 0
                    THEN Answer(route, a, "handler", 400, "invalid id", incidentId)
               ELSE IF ~own.present
                    THEN Answer(route, a, "handler", 404, "not found", incidentId)
               ELSE IF ~actions_canReadIncident(a.user, own)
                    THEN Answer(route, a, "handler", 403, "forbidden", incidentId)
               ELSE Answer(route, a, "handler", 200, "", incidentId)
     /\ UNCHANGED <<env, now, users, req, login, incidents, actions, posts, resources>>

\* router.post("/") of the actions module; body.status_id is 0 when the body
\* gives none. The store answers every query. An error thrown by
\* dbCreateAction (the cap) reaches the route's catch, which answers 500
ActionsPost(h, body) ==
  LET route == "POST /api/actions"
      a     == AuthAtomic(h, "POST", UrlActions)
      g     == allowRoles(ActionsGate, a.user)
      own   == dbGetIncidentOwnership(body.incident_id)
      iso   == IF body.action_date_jalali # "" THEN toGregorianISO(body.action_date_jalali)
               ELSE ""
      refuse(by, s, m) ==
        /\ res' = [Answer(route, a, by, s, m, 0) EXCEPT !.allowed = ActionsGate]
        /\ UNCHANGED <<incidents, actions>>
  IN /\ AuthModuleLoaded
     /\ IF ~a.next
        THEN res' = AuthRefusal(route, a) /\ UNCHANGED <<incidents, actions>>
        ELSE IF g # 0 THEN refuse("gate", g, "forbidden")
        ELSE IF body.incident_id = 0 THEN refuse("handler", 400, "invalid id")
        ELSE IF Trim(body.description) = "" THEN refuse("handler", 400, "description required")
        ELSE IF ~own.present THEN refuse("handler", 404, "not found")
        ELSE IF ~canActOnIncident(a.user, own) THEN refuse("handler", 403, "forbidden")
        ELSE IF dbCountActionsByIncident(body.incident_id) >= ActionCap
             THEN refuse("handler", 500, "")
        ELSE /\ Len(actions) < MaxActions
             /\ actions' = Append(actions,
                             ActionRow(body.incident_id, Trim(body.description), iso,
                                       body.status_id, a.user.id))
             /\ incidents' = IncidentsAfterCreate(body.incident_id, body.status_id)
             /\ res' = [Answer(route, a, "handler", 201, "", Len(actions) + 1)
                          EXCEPT !.allowed = ActionsGate]
     /\ UNCHANGED <<env, now, users, req, login, posts, resources>>

\* router.put("/:id") of the actions module; a field of the body is <<>>
\* when undefined. No ownership lookup is made
ActionsPut(h, id, body) ==
  LET route == "PUT /api/actions/:id"
      a     == AuthAtomic(h, "PUT", UrlActions \o <<"/:id">>)
      g     == allowRoles(ActionsGate, a.user)
      iso   == IF body.action_date_jalali = <<>> THEN <<>>
               ELSE IF body.action_date_jalali[1] # ""
                    THEN <<toGregorianISO(body.action_date_jalali[1])>>
               ELSE <<"">>
      desc  == IF body.description = <<>> THEN <<>> ELSE <<Trim(body.description[1])>>
      refuse(by, s, m) ==
        /\ res' = [Answer(route, a, by, s, m, id) EXCEPT !.allowed = ActionsGate]
        /\ UNCHANGED <<incidents, actions>>
  IN /\ AuthModuleLoaded
     /\ IF ~a.next
        THEN res' = AuthRefusal(route, a) /\ UNCHANGED <<incidents, actions>>
        ELSE IF g # 0 THEN refuse("gate", g, "forbidden")
        ELSE IF id = 0 THEN refuse("handler", 400, "invalid id")
        ELSE /\ actions' = ActionsAfterUpdate(id, desc, iso, body.status_id)
             /\ incidents' = IncidentsAfterUpdate(id, desc, iso, body.status_id)
             /\ res' = [Answer(route, a, "handler", 200, "", id) EXCEPT !.allowed = ActionsGate]
     /\ UNCHANGED <<env, now, users, req, login, posts, resources>>

\* router.delete("/:id") of the actions module. No ownership lookup is made
ActionsDelete(h, id) ==
  LET route == "DELETE /api/actions/:id"
      a     == AuthAtomic(h, "DELETE", UrlActions \o <<"/:id">>)
      g     == allowRoles(ActionsGate, a.user)
      refuse(by, s, m) ==
        /\ res' = [Answer(route, a, by, s, m, id) EXCEPT !.allowed = ActionsGate]
        /\ UNCHANGED actions
  IN /\ AuthModuleLoaded
     /\ IF ~a.next
        THEN res' = AuthRefusal(route, a) /\ UNCHANGED actions
        ELSE IF g # 0 THEN refuse("gate", g, "forbidden")
        ELSE IF id = 0 THEN refuse("handler", 400, "invalid id")
        ELSE /\ actions' = IF ActionLive(id) THEN [actions EXCEPT ![id].deleted = TRUE]
                           ELSE actions
             /\ res' = [Answer(route, a, "handler", 200, "", id) EXCEPT !.allowed = ActionsGate]
     /\ UNCHANGED <<env, now, users, req, login, incidents, posts, resources>>

(* ---------------- POST /api/actions, query by query -------------------- *)

\* router.post("/") of the actions module up to the first query of
\* dbCreateAction: auth, the role gate, the checks of the body and of the
\* incident have passed, and SELECT COUNT(*) answers
PostCount(p, h, body) ==
  LET a   == AuthAtomic(h, "POST", UrlActions)
      own == dbGetIncidentOwnership(body.incident_id)
  IN /\ AuthModuleLoaded
     /\ posts[p].pc = "idle"
     /\ a.next /\ allowRoles(ActionsGate, a.user) = 0
     /\ body.incident_id # 0 /\ Trim(body.description) # ""
     /\ own.present /\ canActOnIncident(a.user, own)
     /\ posts' = [posts EXCEPT ![p] =
                    [pc |-> "counted", cnt |-> dbCountActionsByIncident(body.incident_id),
                     body |-> body, by |-> a.user.id, status |-> 0]]
     /\ UNCHANGED <<env, now, users, req, login, res, incidents, actions, resources>>

\* the rest of dbCreateAction: the count read before decides; if it allows,
\* the INSERT and the updates of the incident follow, else the error is
\* thrown and the route's catch answers 500
PostInsert(p) ==
  LET q   == posts[p]
      iso == IF q.body.action_date_jalali # "" THEN toGregorianISO(q.body.action_date_jalali)
             ELSE ""
  IN /\ q.pc = "counted"
     /\ IF q.cnt >= ActionCap
        THEN /\ posts' = [posts EXCEPT ![p].pc = "done", ![p].status = 500]
             /\ UNCHANGED <<incidents, actions>>
        ELSE /\ actions' = Append(actions,
                             ActionRow(q.body.incident_id, Trim(q.body.description), iso,
                                       q.body.status_id, q.by))
             /\ incidents' = IncidentsAfterCreate(q.body.incident_id, q.body.status_id)
             /\ posts' = [posts EXCEPT ![p].pc = "done", ![p].status = 201]
     /\ UNCHANGED <<env, now, users, req, login, res, resources>>

\* the response has been written: the connection takes the next request
PostReturn(p) ==
  /\ posts[p].pc = "done"
  /\ posts' = [posts EXCEPT ![p] = NoPost]
  /\ UNCHANGED <<env, now, users, req, login, res, incidents, actions, resources>>

(* --------------------------- resources module -------------------------- *)

\* the resources table is the sequence of the rows ever inserted, a row's id
\* being its position; deleted marks a row that DELETE removed
ResourceRow(title, domain, created_by) ==
  [title |-> title, domain |-> domain, created_by |-> created_by,
   updated_at |-> NullDate, deleted |-> FALSE]

NoResource == [ResourceRow("", "", 0) EXCEPT !.deleted = TRUE]

\* dbGetById(id): the row, or NoResource for null
resources_dbGetById(id) ==
  IF id \in 1..Len(resources) /\ ~resources[id].deleted THEN resources[id] ELSE NoResource

\* normDomain(d)
normDomain(d) == IF d = "physical" \/ d = "cyber" THEN d ELSE "cyber"

\* a check that lets a defense-admin act on any resource
ensureAlwaysOwns(user, resource) == TRUE

\* ensureDefenseOwnsPhysicalOr403(req, res, resource): FALSE when it has
\* answered 403
ensureDefenseOwnsPhysicalOr403(user, resource) ==
  ~(user.role = "defense-admin" /\ resource.domain # "physical")

UrlResources == <<"/api", "/resources">>

ResourcesGate == {"system-admin", "defense-admin"}

\* the response of a route of the resources module
ResAnswer(route, a, by, status, message, target, domain) ==
  [Answer(route, a, by, status, message, target) EXCEPT !.allowed = ResourcesGate,
                                                        !.domain = domain]

\* router.post("/") of the resources module; domain is <<>> when the body
\* has none, hasFile whether multer attached a file
ResourcesPost(h, title, domain, hasFile) ==
  /\ AuthModuleLoaded
  /\ \E a \in {AuthAtomic(h, "POST", UrlResources)} :
       LET route == "POST /api/resources"
           g     == allowRoles(ResourcesGate, a.user)
           dom   == IF a.user.role = "defense-admin" THEN "physical"
                    ELSE IF domain = <<>> THEN "" ELSE domain[1]
           refuse(by, s, m) == /\ res' = ResAnswer(route, a, by, s, m, 0, domain)
                               /\ UNCHANGED resources
       IN IF ~a.next THEN res' = AuthRefusal(route, a) /\ UNCHANGED resources
          ELSE IF g # 0 THEN refuse("gate", g, "forbidden")
          ELSE IF Trim(title) = "" THEN refuse("handler", 400, "title required")
          ELSE IF ~hasFile THEN refuse("handler", 400, "no file")
          ELSE /\ Len(resources) < MaxResources
               /\ resources' = Append(resources,
                                 ResourceRow(Trim(title), normDomain(dom), a.user.id))
               /\ res' = ResAnswer(route, a, "handler", 201, "", Len(resources) + 1, domain)
  /\ UNCHANGED <<env, now, users, req, login, incidents, actions, posts>>

\* router.put("/:id") of the resources module, without a new file; title and
\* domain are <<>> when the body has none
ResourcesPut(h, id, title, domain) ==
  /\ AuthModuleLoaded
  /\ \E a \in {AuthAtomic(h, "PUT", UrlResources \o <<"/:id">>)} :
       LET route == "PUT /api/resources/:id"
           g     == allowRoles(ResourcesGate, a.user)
           exist == resources_dbGetById(id)
           dom   == IF domain = <<>> THEN "" ELSE normDomain(domain[1])
           refuse(by, s, m) == /\ res' = ResAnswer(route, a, by, s, m, id, domain)
                               /\ UNCHANGED resources
       IN IF ~a.next THEN res' = AuthRefusal(route, a) /\ UNCHANGED resources
          ELSE IF g # 0 THEN refuse("gate", g, "forbidden")
          ELSE IF id = 0 THEN refuse("handler", 400, "invalid id")
          ELSE IF exist = NoResource THEN refuse("handler", 404, "not found")
          ELSE IF ~ensureDefenseOwnsPhysicalOr403(a.user, exist)
               THEN refuse("handler", 403, "not physical")
          ELSE IF domain # <<>> /\ a.user.role = "defense-admin" /\ dom # "physical"
               THEN refuse("handler", 403, "domain change")
          ELSE /\ resources' =
                    IF title = <<>> /\ domain = <<>> THEN resources
                    ELSE [resources EXCEPT
                            ![id].title = IF title = <<>> THEN @ ELSE Trim(title[1]),
                            ![id].domain = IF domain = <<>> THEN @ ELSE dom,
                            ![id].updated_at = DateAt(now)]
               /\ res' = ResAnswer(route, a, "handler", 200, "", id, domain)
  /\ UNCHANGED <<env, now, users, req, login, incidents, actions, posts>>

\* router.delete("/:id") of the resources module
ResourcesDelete(h, id) ==
  /\ AuthModuleLoaded
  /\ \E a \in {AuthAtomic(h, "DELETE", UrlResources \o <<"/:id">>)} :
       LET route == "DELETE /api/resources/:id"
           g     == allowRoles(ResourcesGate, a.user)
           exist == resources_dbGetById(id)
           refuse(by, s, m) == /\ res' = ResAnswer(route, a, by, s, m, id, <<>>)
                               /\ UNCHANGED resources
       IN IF ~a.next THEN res' = AuthRefusal(route, a) /\ UNCHANGED resources
          ELSE IF g # 0 THEN refuse("gate", g, "forbidden")
          ELSE IF id = 0 THEN refuse("handler", 400, "invalid id")
          ELSE IF exist = NoResource THEN refuse("handler", 404, "not found")
          ELSE IF ~ensureDefenseOwnsPhysicalOr403(a.user, exist)
               THEN refuse("handler", 403, "not physical")
          ELSE /\ resources' = [resources EXCEPT ![id] = NoResource]
               /\ res' = ResAnswer(route, a, "handler", 200, "", id, <<>>)
  /\ UNCHANGED <<env, now, users, req, login, incidents, actions, posts>>

(* --------------------------- password changes -------------------------- *)

\* the characters of the passwords the model uses; "beh", "sin", "mim" and
\* "nun" name the Persian letters U+0628, U+0633, U+0645 and U+0646
Chars(p) ==
  CASE p = "abc"       -> <<"a", "b", "c">>
    [] p = "Abc12345!" -> <<"A", "b", "c", "1", "2", "3", "4", "5", "!">>
    [] p = "abcdefg1!" -> <<"a", "b", "c", "d", "e", "f", "g", "1", "!">>
    [] p = "ABCDEFG1!" -> <<"A", "B", "C", "D", "E", "F", "G", "1", "!">>
    [] p = "Abcdefg1"  -> <<"A", "b", "c", "d", "e", "f", "g", "1">>
    [] p = "Abcdefg!"  -> <<"A", "b", "c", "d", "e", "f", "g", "!">>
    [] p = "Abc123!"   -> <<"A", "b", "c", "1", "2", "3", "!">>
    [] p = "12345678!" -> <<"1", "2", "3", "4", "5", "6", "7", "8", "!">>
    [] p = "{beh}{sin}{mim}{nun}1234!"
                       -> <<"beh", "sin", "mim", "nun", "1", "2", "3", "4", "!">>
    [] p = "Admin123!" -> <<"A", "d", "m", "i", "n", "1", "2", "3", "!">>
    [] p = "wrong"     -> <<"w", "r", "o", "n", "g">>
    [] OTHER -> <<>>

\* the character classes of the regular expressions, on those characters
UpperLatin     == {"A", "B", "C", "D", "E", "F", "G"}
LowerLatin     == {"a", "b", "c", "d", "e", "f", "g", "i", "m", "n", "o", "r", "w"}
AsciiDigits    == {"1", "2", "3", "4", "5", "6", "7", "8"}
\* the range U+0622..U+06CC, the letters the okLower expression lists, and
\* the block U+0600..U+06FF
PersianRange   == {"beh", "sin", "mim", "nun"}
PersianListed  == {"beh", "sin", "mim", "nun"}
ArabicBlock    == {"beh", "sin", "mim", "nun"}

\* regex.test(pass) for a character class
HasCharIn(pass, class)    == \E i \in DOMAIN Chars(pass) : Chars(pass)[i] \in class
HasCharNotIn(pass, class) == \E i \in DOMAIN Chars(pass) : Chars(pass)[i] \notin class

\* shortest password accepted
MinPasswordLength == 8

\* okLen && okUpper && okLower && okDigit && okSpec of the two routes of
\* the auth module
AuthComplexityOk(pass) ==
  LET okLen   == Len(Chars(pass)) >= MinPasswordLength
      okUpper == HasCharIn(pass, UpperLatin \cup PersianRange)
      okLower == HasCharIn(pass, LowerLatin) \/ HasCharIn(pass, PersianListed)
      okDigit == HasCharIn(pass, AsciiDigits)
      okSpec  == HasCharNotIn(pass, UpperLatin \cup LowerLatin \cup AsciiDigits
                                      \cup PersianRange)
  IN okLen /\ okUpper /\ okLower /\ okDigit /\ okSpec

\* validatePasswordComplexity(pass) of the users module
validatePasswordComplexity(pass) ==
  LET hasLetter == HasCharIn(pass, UpperLatin \cup LowerLatin \cup ArabicBlock)
      hasDigit  == HasCharIn(pass, AsciiDigits)
      hasSpec   == HasCharNotIn(pass, UpperLatin \cup LowerLatin \cup AsciiDigits
                                        \cup ArabicBlock)
  IN IF Len(Chars(pass)) < MinPasswordLength THEN FALSE
     ELSE hasLetter /\ hasDigit /\ hasSpec

\* an UPDATE that writes the password and leaves password_changed_at
SetPasswordKeepsDate(id, hashed) ==
  IF ~RowById(id).present THEN users
  ELSE [users EXCEPT ![id].password = hashed]

\* UPDATE users SET password=?, password_changed_at=NOW() WHERE id=?
SetPassword(id, hashed) ==
  IF ~RowById(id).present THEN users
  ELSE [users EXCEPT ![id].password = hashed, ![id].password_changed_at = DateAt(now)]

\* a response of a password route: target is the user written or named,
\* current and password the passwords the request carries
PwAnswer(route, a, status, message, target, current, password) ==
  [Answer(route, a, "handler", status, message, target) EXCEPT !.current = current,
                                                               !.password = password]

\* router.patch("/password") of the auth module; a is the request as the
\* middleware, which runs once, leaves it
AuthChangePassword(h, current_password, new_password, dbOk) ==
  /\ AuthModuleLoaded
  /\ \E a \in {AuthAtomic(h, "PATCH", UrlPassword)} :
       LET route == "PATCH /api/auth/password"
           id    == a.user.id
           user  == RowById(id)
           refuse(s, m) == /\ res' = PwAnswer(route, a, s, m, id, current_password, new_password)
                           /\ UNCHANGED users
       IN IF ~a.next THEN res' = AuthRefusal(route, a) /\ UNCHANGED users
          ELSE IF id = 0 THEN refuse(401, "login first")
          ELSE IF current_password = "" \/ new_password = "" THEN refuse(400, "required")
          ELSE IF ~AuthComplexityOk(new_password) THEN refuse(400, "complexity")
          ELSE IF ~dbOk THEN refuse(500, "")
          ELSE IF ~user.present THEN refuse(404, "not found")
          ELSE IF ~comparePassword(current_password, user.password)
               THEN refuse(400, "wrong current")
          ELSE /\ users' = SetPassword(id, hashPassword(new_password, FreshSalt(user.password)))
               /\ res' = PwAnswer(route, a, 200, "", id, current_password, new_password)
  /\ UNCHANGED <<env, now, req, login, incidents, actions, posts, resources>>

\* router.post("/password/expired-change") of the auth module: no token
ExpiredChange(username, current_password, new_password, dbOk) ==
  LET route == "POST /api/auth/password/expired-change"
      user  == dbGetUserByUsername(Trim(username))
      id    == IdByUsername(Trim(username))
      refuse(s, m) == /\ res' = PwAnswer(route, IdleReq, s, m, id, current_password, new_password)
                      /\ UNCHANGED users
  IN /\ AuthModuleLoaded
     /\ IF username = "" \/ current_password = "" \/ new_password = ""
        THEN refuse(400, "required")
        ELSE IF ~dbOk THEN refuse(500, "")
        ELSE IF ~user.present \/ user.password = NoHash THEN refuse(404, "not found")
        ELSE IF user.status # "" /\ user.status # "active" THEN refuse(403, "inactive")
        ELSE IF ~isPasswordExpired(user) THEN refuse(400, "not expired")
        ELSE IF ~comparePassword(current_password, user.password)
             THEN refuse(400, "wrong current")
        ELSE IF ~AuthComplexityOk(new_password) THEN refuse(400, "complexity")
        ELSE /\ users' = SetPassword(id, hashPassword(new_password, FreshSalt(user.password)))
             /\ res' = PwAnswer(route, IdleReq, 200, "", id, current_password, new_password)
     /\ UNCHANGED <<env, now, req, login, incidents, actions, posts, resources>>

\* the id AUTO_INCREMENT gives the next row of users (no row of the
\* highest id has been deleted)
InsertId ==
  LET present == { i \in DOMAIN users : users[i].present }
  IN 1 + CHOOSE m \in present \cup {0} : \A i \in present : i <= m

\* dbCreateUser({username, passwordHash, fullname, role, status}): the table
\* after the INSERT, password_changed_at being NOW()
dbCreateUser(username, passwordHash, fullname, role, status) ==
  [users EXCEPT ![InsertId] =
     [present |-> TRUE, username |-> username, fullname |-> fullname, role |-> role,
      status |-> status, password |-> passwordHash, password_changed_at |-> DateAt(now)]]

\* router.post("/") of the users module; a field of the body is "" when the
\* body leaves it out
UsersCreate(h, body, dbOk) ==
  /\ AuthModuleLoaded
  /\ \E a \in {AuthAtomic(h, "POST", <<"/api", "/users">>)} :
       LET route == "POST /api/users"
           refuse(s, m) == /\ res' = PwAnswer(route, a, s, m, 0, "", body.password)
                           /\ UNCHANGED users
       IN IF ~a.next THEN res' = AuthRefusal(route, a) /\ UNCHANGED users
          ELSE IF ~isSystemAdmin(a) THEN refuse(403, "forbidden")
          ELSE IF body.username = "" \/ body.fullname = "" \/ body.role = "" \/ body.password = ""
               THEN refuse(400, "required")
          ELSE IF body.role \notin Roles THEN refuse(400, "invalid role")
          ELSE IF body.status # "" /\ body.status \notin {"active", "inactive"}
               THEN refuse(400, "invalid status")
          ELSE IF ~dbOk THEN refuse(500, "")
          ELSE IF dbGetUserByUsername(Trim(body.username)).present THEN refuse(409, "duplicate")
          ELSE IF ~validatePasswordComplexity(body.password) THEN refuse(400, "complexity")
          ELSE /\ InsertId \in DOMAIN users
               /\ users' = dbCreateUser(Trim(body.username), hashPassword(body.password, 0),
                                        Trim(body.fullname), body.role,
                                        OrStr(body.status, "active"))
               /\ res' = PwAnswer(route, a, 201, "", InsertId, "", body.password)
  /\ UNCHANGED <<env, now, req, login, incidents, actions, posts, resources>>

\* router.patch("/me/password") of the users module
UsersSelfPassword(h, current_password, new_password, dbOk) ==
  /\ AuthModuleLoaded
  /\ \E a \in {AuthAtomic(h, "PATCH", <<"/api", "/users", "/me", "/password">>)} :
       LET route == "PATCH /api/users/me/password"
           meId  == a.user.id
           me    == RowById(meId)
           refuse(s, m) == /\ res' = PwAnswer(route, a, s, m, meId, current_password, new_password)
                           /\ UNCHANGED users
       IN IF ~a.next THEN res' = AuthRefusal(route, a) /\ UNCHANGED users
          ELSE IF meId = 0 THEN refuse(401, "login first")
          ELSE IF current_password = "" \/ new_password = "" THEN refuse(400, "required")
          ELSE IF ~validatePasswordComplexity(new_password) THEN refuse(400, "complexity")
          ELSE IF ~dbOk THEN refuse(500, "")
          ELSE IF ~me.present THEN refuse(404, "not found")
          ELSE IF ~comparePassword(current_password, me.password)
               THEN refuse(400, "wrong current")
          ELSE /\ users' = dbUpdateUser(meId,
                             [NoFields EXCEPT !.passwordHash =
                                <<hashPassword(new_password, FreshSalt(me.password))>>])
               /\ res' = PwAnswer(route, a, 200, "", meId, current_password, new_password)
  /\ UNCHANGED <<env, now, req, login, incidents, actions, posts, resources>>

\* router.patch("/:id/password") of the users module
UsersResetPassword(h, id, password, dbOk) ==
  /\ AuthModuleLoaded
  /\ \E a \in {AuthAtomic(h, "PATCH", <<"/api", "/users", "/:id", "/password">>)} :
       LET route == "PATCH /api/users/:id/password"
           prev  == RowById(id)
           refuse(s, m) == /\ res' = PwAnswer(route, a, s, m, id, "", password)
                           /\ UNCHANGED users
       IN IF ~a.next THEN res' = AuthRefusal(route, a) /\ UNCHANGED users
          ELSE IF ~isSystemAdmin(a) THEN refuse(403, "forbidden")
          ELSE IF id = 0 THEN refuse(400, "invalid id")
          ELSE IF password = "" THEN refuse(400, "required")
          ELSE IF ~validatePasswordComplexity(password) THEN refuse(400, "complexity")
          ELSE IF ~dbOk THEN refuse(500, "")
          ELSE IF ~prev.present THEN refuse(404, "not found")
          ELSE /\ users' = dbUpdateUser(id,
                             [NoFields EXCEPT !.passwordHash =
                                <<hashPassword(password, FreshSalt(prev.password))>>])
               /\ res' = PwAnswer(route, a, 200, "", id, "", password)
  /\ UNCHANGED <<env, now, req, login, incidents, actions, posts, resources>>

(* ---- the request pipeline: one request at a time against a store that --- *)
(* ---- the administrator edits and a clock that advances                --- *)

\* no header, another scheme, a token of a foreign secret, an expired token,
\* and valid tokens for every role with and without a subject id
PipeHeaders ==
  {NoHeader, [scheme |-> "Basic ", token |-> Bearer(1, "user", "k1", MaxNow + 1).token],
   Bearer(1, "user", "bad", MaxNow + 1), Bearer(1, "user", "k1", 0)}
  \cup { Bearer(id, role, "k1", MaxNow + 1) : id \in {0, 1}, role \in Roles }

Init ==
  /\ env \in { Env("k1", "", "", "development", age) : age \in {<<>>, <<0>>, <<1>>} }
  /\ now = 0
  /\ users \in { [i \in UserIds |-> IF i = 2 THEN AdminRow ELSE r] : r \in UserRows \cup {NoRow} }
  /\ req = IdleReq
  /\ login = NoLogin
  /\ res = NoRes
  /\ incidents = NoIncidents
  /\ actions = <<>>
  /\ posts = NoPosts
  /\ resources = <<>>

Next ==
  \/ \E h \in PipeHeaders, r \in Requests : AuthBegin(h, r[1], r[2])
  \/ \E dbOk \in BOOLEAN : AuthHydrate(dbOk)
  \/ \E dbOk \in BOOLEAN : AuthExpiry(dbOk)
  \/ \E role \in Roles : AdminUpdateUser(1, [NoBody EXCEPT !.role = <<role>>])
  \/ \E status \in {"active", "inactive"} : AdminUpdateUser(1, [NoBody EXCEPT !.status = <<status>>])
  \/ AdminDeleteUser(1)
  \/ Complete
  \/ Tick

Spec == Init /\ [][Next]_vars

(* ---- token verification: every configuration of the three secret    --- *)
(* ---- variables, tokens signed with every secret, expired or not       --- *)

SecretValues == {"", "k1", "k2", "k3"}

TokenSecrets == {"k1", "k2", "k3", DevAccessSecret, "bad"}

TokenHeaders ==
  {NoHeader} \cup { Bearer(1, "user", sec, exp) : sec \in TokenSecrets, exp \in {0, 1, MaxNow + 1} }

PlainRow(role, changed) ==
  [present |-> TRUE, username |-> "u1", fullname |-> "U One", role |-> role,
   status |-> "active",
   password |-> hashPassword("Abc12345!", 0), password_changed_at |-> changed]

InitTokens ==
  /\ env \in { Env(a, b, c, node, <<>>) :
                 a \in SecretValues, b \in SecretValues, c \in SecretValues,
                 node \in {"development", "production"} }
  /\ now = 0
  /\ users = [i \in UserIds |-> IF i = 2 THEN AdminRow ELSE PlainRow("user", DateAt(0))]
  /\ req = IdleReq
  /\ login = NoLogin
  /\ res = NoRes
  /\ incidents = NoIncidents
  /\ actions = <<>>
  /\ posts = NoPosts
  /\ resources = <<>>

NextTokens ==
  \/ \E h \in TokenHeaders : AuthBegin(h, "GET", UrlIncidents)
  \/ \E dbOk \in BOOLEAN : AuthHydrate(dbOk)
  \/ \E dbOk \in BOOLEAN : AuthExpiry(dbOk)
  \/ Complete
  \/ Tick

SpecTokens == InitTokens /\ [][NextTokens]_vars

(* ---- password age: every policy setting, every age, both checks       --- *)

MaxAgeSettings == {<<>>, <<0 - 1>>, <<0>>, <<1>>, <<2>>}

ExpiryDates == {NullDate, InvalidDate} \cup { DateAt(t) : t \in (0 - MaxPast)..MaxNow }

ExpiryHeaders == { Bearer(1, role, "k1", MaxNow + 1) : role \in {"user", "system-admin"} }

InitExpiry ==
  /\ env \in { Env("k1", "", "", "development", age) : age \in MaxAgeSettings }
  /\ now \in 0..MaxNow
  /\ users \in { [i \in UserIds |-> IF i = 2 THEN AdminRow ELSE PlainRow(role, c)] :
                   role \in Roles, c \in ExpiryDates }
  /\ req = IdleReq
  /\ login = NoLogin
  /\ res = NoRes
  /\ incidents = NoIncidents
  /\ actions = <<>>
  /\ posts = NoPosts
  /\ resources = <<>>

\* the store and the clock stand still, so a recorded outcome can be compared
\* with the row and the time it was computed from
NextExpiry ==
  \/ \E h \in ExpiryHeaders, r \in {<<"GET", UrlIncidents>>, <<"GET", UrlMe>>} :
       AuthBegin(h, r[1], r[2])
  \/ \E dbOk \in BOOLEAN : AuthHydrate(dbOk)
  \/ \E dbOk \in BOOLEAN : AuthExpiry(dbOk)
  \/ Complete
  \/ \E u \in {"u1", " u1 ", "nobody"}, pw \in {"Abc12345!", "wrong"}, dbOk \in BOOLEAN :
       Login(u, pw, dbOk)

SpecExpiry == InitExpiry /\ [][NextExpiry]_vars

(* ---- the role gate: every configured role set against identities of   --- *)
(* ---- every role, hydrated from the store or taken from the token       --- *)

GateRoleSets ==
  { {}, {"defense-admin"}, {"defense-admin", "system-admin"}, {"Defense-Admin"},
    {"user"}, {"user", "defense-admin"}, {"auditor"}, {"system-admin"},
    {"user", "auditor"} }

\* tokens without a subject id carry their role into req.user as it is
GateHeaders ==
  {NoHeader, Bearer(1, "user", "k1", MaxNow + 1)}
  \cup { Bearer(0, role, "k1", MaxNow + 1) :
           role \in Roles \cup {"Defense-Admin", "SYSTEM-ADMIN", "auditor"} }

\* the rows the table holds at start are not written through the routes (the
\* first administrator cannot be): the role column of such a row is any text
InitGate ==
  /\ env = Env("k1", "", "", "development", <<>>)
  /\ now = 0
  /\ users \in { [i \in UserIds |-> IF i = 2 THEN AdminRow ELSE PlainRow(role, DateAt(0))] :
                   role \in Roles \cup {"auditor"} }
  /\ req = IdleReq
  /\ login = NoLogin
  /\ res = NoRes
  /\ incidents = NoIncidents
  /\ actions = <<>>
  /\ posts = NoPosts
  /\ resources = <<>>

NextGate ==
  \/ \E h \in GateHeaders, roles \in GateRoleSets : GatedRoute(h, roles)
  \/ \E role \in Roles : AdminUpdateUser(1, [NoBody EXCEPT !.role = <<role>>])

SpecGate == InitGate /\ [][NextGate]_vars

(* ---- incidents and their actions: requests of the administrator and of --- *)
(* ---- a user of every role on an incident of every category and reporter --- *)

IncidentRow(reporter, category) ==
  [NoIncident EXCEPT !.present = TRUE, !.reporter_id = reporter, !.category_id = category,
                     !.status_id = 1, !.updated_at = DateAt(0)]

\* the bearer of user 1 and of the administrator, and no header
ActionsHeaders == {NoHeader, Bearer(1, "user", "k1", MaxNow + 1), AdminHeader}

\* bodies of POST /api/actions: an incident that exists or not, a blank or a
\* real description, with or without the closing status
PostBodies ==
  [incident_id : {1, 2}, description : {" ", "d"}, action_date_jalali : {"1403/01/01"},
   status_id : {0, CLOSED_STATUS_ID}]

PutBodies ==
  { [description |-> <<"e">>, action_date_jalali |-> <<"">>, status_id |-> <<>>],
    [description |-> <<>>, action_date_jalali |-> <<>>, status_id |-> <<CLOSED_STATUS_ID>>] }

\* incident 1 was reported by user 1
InitActions ==
  /\ env = Env("k1", "", "", "development", <<>>)
  /\ now = 0
  /\ users \in { [i \in UserIds |-> IF i = 2 THEN AdminRow ELSE PlainRow(role, DateAt(0))] :
                   role \in Roles }
  /\ req = IdleReq
  /\ login = NoLogin
  /\ res = NoRes
  /\ incidents \in { [i \in IncidentIds |-> IF i = 1 THEN IncidentRow(1, category)
                                             ELSE NoIncident] :
                       category \in {1, PhysicalCategory} }
  /\ actions = <<>>
  /\ posts = NoPosts
  /\ resources = <<>>

NextActions ==
  \/ \E h \in ActionsHeaders, body \in PostBodies : ActionsPost(h, body)
  \/ \E h \in ActionsHeaders, id \in 0..MaxActions, body \in PutBodies : ActionsPut(h, id, body)
  \/ \E h \in ActionsHeaders, id \in 0..MaxActions : ActionsDelete(h, id)

SpecActions == InitActions /\ [][NextActions]_vars

(* ---- reading incidents: both read routes, for a user of every role and --- *)
(* ---- the administrator, on an incident of every category and reporter  --- *)

InitRead ==
  /\ env = Env("k1", "", "", "development", <<>>)
  /\ now = 0
  /\ users \in { [i \in UserIds |-> IF i = 2 THEN AdminRow ELSE PlainRow(role, DateAt(0))] :
                   role \in Roles }
  /\ req = IdleReq
  /\ login = NoLogin
  /\ res = NoRes
  /\ incidents \in { [i \in IncidentIds |-> IF i = 1 THEN IncidentRow(reporter, category)
                                             ELSE NoIncident] :
                       reporter \in UserIds, category \in {1, PhysicalCategory, 3} }
  /\ actions = <<>>
  /\ posts = NoPosts
  /\ resources = <<>>

NextRead ==
  \/ \E h \in ActionsHeaders, id \in {0, 1, 2} : IncidentsGet(h, id)
  \/ \E h \in ActionsHeaders, id \in {0, 1, 2} : ActionsList(h, id)
  \/ \E role \in Roles : AdminUpdateUser(1, [NoBody EXCEPT !.role = <<role>>])

SpecRead == InitRead /\ [][NextRead]_vars

(* ---- login and its tokens: every configuration of the access and       --- *)
(* ---- refresh secret variables, in development and in production        --- *)

\* a request bearing the access token the last login issued
IssuedHeader == [scheme |-> "Bearer ", token |-> login.accessToken]

InitLogin ==
  /\ env \in { EnvWithRefresh(a, b, c, rj, r, node, <<>>) :
                 a \in {"", "k1", "my_dev_key"}, b \in {"", "k2"}, c \in {"", "k3"},
                 rj \in {"", "r1"}, r \in {"", "r2"},
                 node \in {"development", "production"} }
  /\ now = 0
  /\ users = [i \in UserIds |-> IF i = 2 THEN AdminRow ELSE PlainRow("user", DateAt(0))]
  /\ req = IdleReq
  /\ login = NoLogin
  /\ res = NoRes
  /\ incidents = NoIncidents
  /\ actions = <<>>
  /\ posts = NoPosts
  /\ resources = <<>>

NextLogin ==
  \/ \E u \in {"u1", "nobody"}, pw \in {"Abc12345!", "wrong"}, dbOk \in BOOLEAN :
       Login(u, pw, dbOk)
  \/ login.status = 200 /\ AuthBegin(IssuedHeader, "GET", UrlIncidents)
  \/ \E dbOk \in BOOLEAN : AuthHydrate(dbOk)
  \/ \E dbOk \in BOOLEAN : AuthExpiry(dbOk)
  \/ Complete
  \/ Tick

SpecLogin == InitLogin /\ [][NextLogin]_vars

(* ---- hydration: tokens issued before the administrator edited the row, --- *)
(* ---- against a store that answers or fails at each query               --- *)

\* no header, a token of a foreign secret, an expired token, a token with
\* no subject id, and tokens of user 1 issued under every role
HydrateHeaders ==
  {NoHeader, Bearer(1, "user", "bad", MaxNow + 1), Bearer(1, "user", "k1", 0),
   Bearer(0, "user", "k1", MaxNow + 1)}
  \cup { Bearer(1, role, "k1", MaxNow + 1) : role \in Roles }

InitHydrate ==
  /\ env = Env("k1", "", "", "development", <<>>)
  /\ now = 0
  /\ users \in { [i \in UserIds |-> IF i = 2 THEN AdminRow ELSE PlainRow(role, c)] :
                   role \in Roles, c \in {NullDate, DateAt(0)} }
  /\ req = IdleReq
  /\ login = NoLogin
  /\ res = NoRes
  /\ incidents = NoIncidents
  /\ actions = <<>>
  /\ posts = NoPosts
  /\ resources = <<>>

NextHydrate ==
  \/ \E h \in HydrateHeaders : AuthBegin(h, "GET", UrlIncidents)
  \/ \E dbOk \in BOOLEAN : AuthHydrate(dbOk)
  \/ \E dbOk \in BOOLEAN : AuthExpiry(dbOk)
  \/ Complete
  \/ \E role \in Roles : AdminUpdateUser(1, [NoBody EXCEPT !.role = <<role>>])
  \/ \E name \in {"", " ", "U New"} : AdminUpdateUser(1, [NoBody EXCEPT !.fullname = <<name>>])
  \/ \E name \in {"u1", "u1b", "admin"} : AdminUpdateUser(1, [NoBody EXCEPT !.username = <<name>>])

SpecHydrate == InitHydrate /\ [][NextHydrate]_vars

(* ---- passwords: every route that checks or writes one, for a user with --- *)
(* ---- a fresh or an expired password and for the administrator          --- *)

NewPasswords ==
  {"Abc12345!", "abcdefg1!", "ABCDEFG1!", "Abcdefg1", "Abcdefg!", "Abc123!",
   "{beh}{sin}{mim}{nun}1234!"}

\* the candidates of the routes that are not given all of NewPasswords
FewPasswords == {"Abc12345!", "abcdefg1!", "Abc123!"}

\* the users table of this specification has room for one more row
PasswordUserIds == UserIds \cup {3}

UserHeader == Bearer(1, "user", "k1", MaxNow + 1)

CreateBodies ==
  [username : {"u3", "u1"}, fullname : {"U Three"}, role : {"user"},
   status : {""}, password : {"abcdefg1!", "Abc123!"}]

\* the password of user 1 is older than the one day allowed
InitPasswords ==
  /\ env = Env("k1", "", "", "development", <<1>>)
  /\ now = MaxNow
  /\ users = [i \in PasswordUserIds |->
                IF i = 2 THEN AdminRow
                ELSE IF i = 1 THEN PlainRow("user", DateAt(0 - MaxPast)) ELSE NoRow]
  /\ req = IdleReq
  /\ login = NoLogin
  /\ res = NoRes
  /\ incidents = NoIncidents
  /\ actions = <<>>
  /\ posts = NoPosts
  /\ resources = <<>>

NextPasswords ==
  \/ \E cur \in {"Abc12345!", "wrong"}, new \in NewPasswords :
       AuthChangePassword(UserHeader, cur, new, TRUE)
  \/ \E cur \in {"Abc12345!", "wrong"}, new \in FewPasswords, dbOk \in BOOLEAN :
       ExpiredChange("u1", cur, new, dbOk)
  \/ \E h \in {UserHeader, AdminHeader}, body \in CreateBodies, dbOk \in BOOLEAN :
       UsersCreate(h, body, dbOk)
  \/ \E cur \in {"Abc12345!", "wrong"}, new \in FewPasswords, dbOk \in BOOLEAN :
       UsersSelfPassword(UserHeader, cur, new, dbOk)
  \/ \E new \in NewPasswords : UsersResetPassword(AdminHeader, 1, new, TRUE)
  \/ \E body \in {[NoBody EXCEPT !.fullname = <<"U New">>],
                   [NoBody EXCEPT !.role = <<"defense-admin">>],
                   [NoBody EXCEPT !.status = <<"active">>]} : AdminUpdateUser(1, body)

SpecPasswords == InitPasswords /\ [][NextPasswords]_vars

(* ---- accounts: logins and the change of an expired password, for a    --- *)
(* ---- user who is active or not, whose password is fresh, old or undated --- *)

AccountDates == {NullDate, DateAt(0 - MaxPast), DateAt(0)}

InitAccounts ==
  /\ env \in { Env("k1", "", "", "development", age) : age \in {<<>>, <<0>>, <<1>>} }
  /\ now \in 0..MaxNow
  /\ users \in { [i \in UserIds |->
                    IF i = 2 THEN AdminRow
                    ELSE [PlainRow("user", c) EXCEPT !.status = status]] :
                   c \in AccountDates, status \in {"active", "inactive"} }
  /\ req = IdleReq
  /\ login = NoLogin
  /\ res = NoRes
  /\ incidents = NoIncidents
  /\ actions = <<>>
  /\ posts = NoPosts
  /\ resources = <<>>

NextAccounts ==
  \/ \E u \in {"u1", " u1 ", "nobody", ""}, pw \in {"Abc12345!", "abcdefg1!", "wrong"},
        dbOk \in BOOLEAN : Login(u, pw, dbOk)
  \/ \E u \in {"u1", "nobody"}, cur \in {"Abc12345!", "wrong"}, new \in FewPasswords,
        dbOk \in BOOLEAN : ExpiredChange(u, cur, new, dbOk)
  \/ \E status \in {"active", "inactive"} : AdminUpdateUser(1, [NoBody EXCEPT !.status = <<status>>])

SpecAccounts == InitAccounts /\ [][NextAccounts]_vars

(* ---- the cap on actions: requests POST /api/actions in flight together --- *)
(* ---- on an incident that is one or two actions short of the cap        --- *)

\* the table after n actions of the administrator on incident 1
RECURSIVE ActionsOfOne(_)
ActionsOfOne(n) ==
  IF n = 0 THEN <<>>
  ELSE Append(ActionsOfOne(n - 1), [ActionRow(1, "d", "", 0, 2) EXCEPT !.created_at = DateAt(0)])

\* the table never holds more rows than the cap and one per request in flight
RaceRoom == ActionCap + MaxPosters

InitRace ==
  /\ env = Env("k1", "", "", "development", <<>>)
  /\ now = 0
  /\ users = [i \in UserIds |-> IF i = 2 THEN AdminRow ELSE PlainRow("defense-admin", DateAt(0))]
  /\ req = IdleReq
  /\ login = NoLogin
  /\ res = NoRes
  /\ incidents = [NoIncidents EXCEPT ![1] = [IncidentRow(1, PhysicalCategory) EXCEPT
                                               !.first_action_at = DateAt(0)]]
  /\ actions \in { ActionsOfOne(n) : n \in {ActionCap - 2, ActionCap - 1} }
  /\ posts = NoPosts
  /\ resources = <<>>

NextRace ==
  \/ \E p \in Posters, h \in {AdminHeader, Bearer(1, "user", "k1", MaxNow + 1)},
        status_id \in {0, CLOSED_STATUS_ID} :
       /\ Len(actions) < RaceRoom
       /\ PostCount(p, h, [incident_id |-> 1, description |-> "d",
                           action_date_jalali |-> "", status_id |-> status_id])
  \/ \E p \in Posters : PostInsert(p)
  \/ \E p \in Posters : PostReturn(p)

SpecRace == InitRace /\ [][NextRace]_vars

(* ---- resources: requests of a user of every role on a physical or a   --- *)
(* ---- cyber resource                                                    --- *)

DomainFields == {<<>>, <<"physical">>, <<"cyber">>, <<"other">>}

InitResources ==
  /\ env = Env("k1", "", "", "development", <<>>)
  /\ now = 0
  /\ users \in { [i \in UserIds |-> IF i = 2 THEN AdminRow ELSE PlainRow(role, DateAt(0))] :
                   role \in Roles }
  /\ req = IdleReq
  /\ login = NoLogin
  /\ res = NoRes
  /\ incidents = NoIncidents
  /\ actions = <<>>
  /\ posts = NoPosts
  /\ resources \in {<<ResourceRow("t", domain, 2)>> : domain \in {"physical", "cyber"}}

\* the bodies of a POST: title, domain, and whether a file is attached
ResourcePosts ==
  {<<"t", d, TRUE>> : d \in DomainFields} \cup {<<" ", <<>>, TRUE>>, <<"t", <<>>, FALSE>>}

\* the bodies of a PUT: title and domain
ResourcePuts == {<<<<>>, d>> : d \in DomainFields} \cup {<<<<" t ">>, <<>>>>}

NextResources ==
  \/ \E b \in ResourcePosts : ResourcesPost(UserHeader, b[1], b[2], b[3])
  \/ \E id \in 1..MaxResources, b \in ResourcePuts : ResourcesPut(UserHeader, id, b[1], b[2])
  \/ \E id \in 1..MaxResources : ResourcesDelete(UserHeader, id)

SpecResources == InitResources /\ [][NextResources]_vars

(* ---- the marks of an incident: the administrator creates actions on a  --- *)
(* ---- fresh incident, edits and deletes the first, while time passes    --- *)

\* the status a new action is given: none or closed
MarkedStatuses == {0, CLOSED_STATUS_ID}

\* an edit reopens or closes
MarkedPuts ==
  { [description |-> <<>>, action_date_jalali |-> <<>>, status_id |-> <<s>>] :
      s \in {1, CLOSED_STATUS_ID} }

InitMarks ==
  /\ env = Env("k1", "", "", "development", <<>>)
  /\ now = 0
  /\ users = [i \in UserIds |-> IF i = 2 THEN AdminRow ELSE PlainRow("user", DateAt(0))]
  /\ req = IdleReq
  /\ login = NoLogin
  /\ res = NoRes
  /\ incidents = [NoIncidents EXCEPT ![1] = IncidentRow(1, PhysicalCategory)]
  /\ actions = <<>>
  /\ posts = NoPosts
  /\ resources = <<>>

NextMarks ==
  \/ \E status_id \in MarkedStatuses :
       /\ Len(actions) < MaxMarked
       /\ PostCount(1, AdminHeader, [incident_id |-> 1, description |-> "d",
                                     action_date_jalali |-> "", status_id |-> status_id])
  \/ PostInsert(1)
  \/ PostReturn(1)
  \/ \E body \in MarkedPuts : ActionsPut(AdminHeader, 1, body)
  \/ ActionsDelete(AdminHeader, 1)
  \/ Tick

SpecMarks == InitMarks /\ [][NextMarks]_vars

(* ------------------------------ properties ----------------------------- *)

\* the token the request in the middleware bears
Tok == req.header.token

HasBearer == req.header.scheme = "Bearer " /\ Tok # NoToken

SignedByCandidate ==
  \E i \in DOMAIN CANDIDATE_ACCESS_SECRETS : CANDIDATE_ACCESS_SECRETS[i] = Tok.secret

\* position of the first candidate equal to the signing secret
FirstCandidate ==
  CHOOSE i \in DOMAIN CANDIDATE_ACCESS_SECRETS :
    /\ CANDIDATE_ACCESS_SECRETS[i] = Tok.secret
    /\ \A j \in 1..(i - 1) : CANDIDATE_ACCESS_SECRETS[j] # Tok.secret

\* the token had not expired when the request arrived
UnexpiredOnArrival == req.at < Tok.exp

\* the middleware answered the request itself
Responded == req.status # 0

C3_NoRowIs403 ==
  req.pc = "done" /\ req.how = "norow" => req.status = 403 /\ ~req.next

\* the path of a URL: its atoms up to the query string
RECURSIVE PathOf(_)
PathOf(u) ==
  IF u = <<>> \/ Head(u) \in {"?t=1", "?r="} THEN <<>>
  ELSE <<Head(u)>> \o PathOf(Tail(u))

\* (method, path) is one of the three routes open to an expired password
OnWhitelistedRoute(method, url) ==
  LET p == LowerUrl(PathOf(url)) IN
  \/ method = "GET"   /\ EndsWith(p, <<"/auth", "/me">>)
  \/ method = "PATCH" /\ EndsWith(p, <<"/auth", "/password">>)
  \/ method = "POST"  /\ EndsWith(p, <<"/auth", "/logout">>)

\* C6 (as claimed): a request of an identity with an expired password that is
\* not a system-admin passes the expiry gate exactly when its (method, path)
\* is GET .../auth/me, PATCH .../auth/password or POST .../auth/logout, and
\* every other request gets 403 PASSWORD_EXPIRED.
C6_GateOpenExactlyOnWhitelist ==
  req.pc = "done" /\ req.expired /\ req.status # 500 =>
    /\ req.next <=> OnWhitelistedRoute(req.method, req.url)
    /\ ~req.next => req.status = 403 /\ req.code = "PASSWORD_EXPIRED"

\* C2 (as claimed): an expired token signed with a candidate access secret is
\* rejected with EXPIRED_ACCESS, whatever the list and the secret's place.
C2_ExpiredIsExpiredAccess ==
  req.pc = "done" /\ HasBearer /\ SignedByCandidate /\ ~UnexpiredOnArrival =>
    req.status = 401 /\ req.code = "EXPIRED_ACCESS"

\* C4: a token signed with a secret outside the candidate list is rejected
\* with 401 INVALID_ACCESS, expired or not, and the next handler is not
\* called.
C4_ForeignSecretIsInvalid ==
  req.pc # "idle" /\ HasBearer /\ ~SignedByCandidate =>
    /\ req.pc = "done"
    /\ req.status = 401 /\ req.code = "INVALID_ACCESS"
    /\ ~req.next

\* a foreign-signed token whose expiry has passed was rejected
C4_Witness ==
  /\ req.pc = "done" /\ HasBearer /\ ~SignedByCandidate /\ ~UnexpiredOnArrival
  /\ Len(CANDIDATE_ACCESS_SECRETS) >= 2
  /\ req.code = "INVALID_ACCESS"

\* C5: an unexpired token signed with the Kth of N candidates passes
\* verification: the middleware goes on with the token's claims, and the
\* verifier returns them from the first candidate that verifies.
C5_KthCandidateVerifies ==
  /\ req.pc # "idle" /\ HasBearer /\ SignedByCandidate /\ UnexpiredOnArrival =>
       /\ ~(req.status = 401)
       /\ req.payload = Claims(Tok)
  /\ HasBearer /\ SignedByCandidate /\ now < Tok.exp =>
       /\ verifyWithAnySecret(Tok).ok
       /\ verifyWithAnySecret(Tok).index = FirstCandidate
       /\ verifyWithAnySecret(Tok).payload = Claims(Tok)

\* a token signed with the third of four candidates passed verification
C5_Witness ==
  /\ Len(CANDIDATE_ACCESS_SECRETS) = 4
  /\ HasBearer /\ Tok.secret = CANDIDATE_ACCESS_SECRETS[3]
  /\ \A j \in 1..2 : CANDIDATE_ACCESS_SECRETS[j] # Tok.secret
  /\ req.pc = "done" /\ req.next

\* the stored row of the user the expiry checks are about
Row1 == users[1]

\* the middleware computed the expiry gate for the request
GateReached == req.pc = "done" /\ (req.next \/ req.code = "PASSWORD_EXPIRED")

\* the login route reached its password-age check for user 1
LoginCheckedAge ==
  /\ Trim(login.username) = Row1.username
  /\ login.status = 200 \/ login.code = "PASSWORD_EXPIRED"

\* C7 (as claimed): an identity whose role is system-admin is never rejected
\* with PASSWORD_EXPIRED, neither by the middleware gate nor by login.
C7_AdminNeverPasswordExpired ==
  /\ req.pc = "done" /\ ToLower(req.user.role) = "system-admin" =>
       req.code # "PASSWORD_EXPIRED"
  /\ LoginCheckedAge /\ Row1.role = "system-admin" =>
       login.code # "PASSWORD_EXPIRED"

\* C8 (as claimed): with max_age_days <= 0 nobody is treated as
\* password-expired, by the middleware gate or by login.
C8_DisabledPolicyNeverExpires ==
  PASSWORD_MAX_AGE_DAYS <= 0 =>
    /\ ~req.expired /\ req.code # "PASSWORD_EXPIRED"
    /\ login.code # "PASSWORD_EXPIRED"

\* C9 (as claimed): with max_age_days > 0 and a role other than system-admin,
\* an absent or unparseable password_changed_at is treated as expired, by the
\* middleware gate and by login.
C9_MissingDateIsExpired ==
  PASSWORD_MAX_AGE_DAYS > 0 /\ Row1.password_changed_at.kind \in {"null", "invalid"} =>
    /\ GateReached /\ ToLower(req.user.role) # "system-admin" => req.expired
    /\ LoginCheckedAge /\ Row1.role # "system-admin" => login.code = "PASSWORD_EXPIRED"

\* C10 (as claimed): with the policy enabled and a valid password_changed_at,
\* the password is expired iff the whole days elapsed exceed max_age_days, and
\* the middleware gate and login give that same answer.
C10_ExpiredIffWholeDaysExceed ==
  PASSWORD_MAX_AGE_DAYS > 0 /\ Row1.password_changed_at.kind = "date" =>
    LET age     == now - Row1.password_changed_at.t
        expired == (age \div TicksPerDay) > PASSWORD_MAX_AGE_DAYS
    IN /\ GateReached /\ ToLower(req.user.role) # "system-admin" => (req.expired <=> expired)
       /\ LoginCheckedAge /\ Row1.role # "system-admin" =>
            ((login.code = "PASSWORD_EXPIRED") <=> expired)


\* C11: allowRoles(S) passes an identity iff its role, compared without
\* regard to case, is system-admin or a member of S; otherwise it responds
\* 403 and the handler is not called.
C11_RoleGatePassesIffAllowed ==
  res.route = "allowRoles" /\ res.by # "auth" =>
    LET role   == ToLower(res.user.role)
        member == role = "system-admin" \/ \E s \in res.allowed : ToLower(s) = role
    IN /\ res.by = "handler" <=> member
       /\ ~member => res.by = "gate" /\ res.status = 403

\* a system-admin passed a gate configured for defense-admin only
C11_Witness ==
  /\ res.route = "allowRoles" /\ res.allowed = {"defense-admin"}
  /\ res.user.role = "system-admin"
  /\ res.by = "handler" /\ res.status = 200

\* the incident of the action with this id, in the table t
IncidentOfAction(t, id) == incidents[t[id].incident_id]

\* C12 (as claimed): an action is created, modified or deleted only by a
\* system-admin, or by a defense-admin when the incident of the action is
\* physical: every step that changes a row of the actions table is a request
\* of such an identity.
C12_OnlyEntitledChangeActions ==
  [][\A id \in 1..Len(actions') :
       (id > Len(actions) \/ actions'[id] # actions[id]) =>
         \/ res'.user.role = "system-admin"
         \/ /\ res'.user.role = "defense-admin"
            /\ IncidentOfAction(actions', id).category_id = PhysicalCategory]_vars

\* can_read as the claim states it
CanReadClaimed(identity, incident) ==
  \/ identity.role = "system-admin"
  \/ identity.role = "defense-admin" /\ incident.category_id = PhysicalCategory
  \/ /\ identity.role \notin {"system-admin", "defense-admin"}
     /\ incident.reporter_id = identity.id

\* identities of every role, with and without a subject id
ReadIdentities ==
  { [NoPayload EXCEPT !.id = i, !.role = r] : i \in {0} \cup UserIds, r \in Roles }

\* C13: for every identity and every incident of the store, canReadIncident
\* of the incidents module and of the actions module both give what the
\* claim states, and the two GET routes answer 403 exactly when it is false.
C13_CanReadSameInBothModules ==
  /\ \A u \in ReadIdentities \cup {res.user}, i \in IncidentIds :
       u # NoPayload /\ incidents[i].present =>
         /\ canReadIncident(u, incidents[i]) = CanReadClaimed(u, incidents[i])
         /\ actions_canReadIncident(u, dbGetIncidentOwnership(i))
              = CanReadClaimed(u, incidents[i])
  /\ /\ res.route \in {"GET /api/incidents/:id", "GET /api/actions/:incidentId"}
     /\ res.by = "handler" /\ res.status \in {200, 403}
     => (res.status = 200 <=> CanReadClaimed(res.user, incidents[res.target]))

\* a defense-admin was refused the actions of a cyber incident
C13_Witness ==
  /\ res.route = "GET /api/actions/:incidentId" /\ res.status = 403
  /\ res.user.role = "defense-admin"
  /\ incidents[res.target].present /\ incidents[res.target].category_id = 1

\* C14 (as claimed): no token issued by login is signed with the fixed
\* development fallback secret of its kind, whatever the configuration.
C14_LoginNeverSignsWithFallback ==
  login.status = 200 =>
    /\ login.accessToken.secret # DevAccessSecret
    /\ login.refreshToken.secret # DevRefreshSecret

\* some candidate access secret is a development placeholder
PlaceholderCandidate ==
  \E i \in DOMAIN CANDIDATE_ACCESS_SECRETS : IncludesDev(CANDIDATE_ACCESS_SECRETS[i])

\* C15: in production mode with a development placeholder among the
\* candidate access secrets the module does not load: no request reaches the
\* middleware, none is authenticated and no login is answered.
C15_ProdPlaceholderServesNothing ==
  isProd /\ PlaceholderCandidate =>
    /\ req.pc = "idle" /\ ~req.next
    /\ login.status = 0
    /\ res = NoRes

\* a production process configured with a placeholder secret, some time
\* after its start
C15_Witness ==
  /\ isProd /\ env.JWT_ACCESS_SECRET = "my_dev_key" /\ env.JWT_SECRET = "k2"
  /\ now = MaxNow
  /\ req.pc = "idle" /\ login.status = 0

\* C16: when the store cannot be reached during hydration the request goes
\* on: the identity is the token's claims (id, username, fullname, role), a
\* system-admin passes at once and anybody else reaches the expiry lookup,
\* which alone may still answer the request.
C16_StoreFailureKeepsTokenClaims ==
  req.how = "dberr" =>
    /\ req.user = req.payload
    /\ req.payload = Claims(Tok)
    /\ IF ToLower(req.user.role) = "system-admin"
       THEN req.pc = "done" /\ req.next /\ ~Responded
       ELSE \/ req.pc = "expiry" /\ ~Responded
            \/ req.pc = "done" /\ (req.next \/ req.code = "PASSWORD_EXPIRED" \/ req.threw)

\* the request of a user went on with the names of the token, which the
\* store no longer holds, after the hydration query failed
C16_Witness ==
  /\ req.how = "dberr" /\ req.pc = "done" /\ req.next
  /\ req.user.username = "u1-old" /\ Row1.present /\ Row1.username = "u1"
  /\ req.user.role = "user"

\* C17 (as claimed): when the store answers the hydration query with a row,
\* the identity attached to the request is the id, username, fullname and
\* role of that row, whatever the token says.
C17_IdentityIsTheRow ==
  [][req.pc = "hydrate" /\ req'.how = "row" =>
       LET row == users[req.payload.id] IN
       req'.user = [id |-> req.payload.id, username |-> row.username,
                    fullname |-> row.fullname, role |-> row.role]]_vars

MeetsComplexity(p) ==
  /\ Len(Chars(p)) >= 8
  /\ HasCharIn(p, UpperLatin \cup PersianRange)
  /\ HasCharIn(p, LowerLatin \cup PersianRange)
  /\ HasCharIn(p, AsciiDigits)
  /\ HasCharNotIn(p, UpperLatin \cup LowerLatin \cup AsciiDigits \cup PersianRange)

PasswordRoutes ==
  {"PATCH /api/auth/password", "POST /api/auth/password/expired-change", "POST /api/users",
   "PATCH /api/users/me/password", "PATCH /api/users/:id/password"}

\* C19 (as claimed): every password-complexity check accepts a candidate iff
\* all five clauses hold: a route refuses for complexity only a candidate
\* that fails a clause, and writes only a candidate that meets all five.
C19_EveryCheckIsFiveClauses ==
  res.route \in PasswordRoutes /\ res.by = "handler" =>
    /\ res.message = "complexity" => ~MeetsComplexity(res.password)
    /\ res.status \in {200, 201} => MeetsComplexity(res.password)

\* C20: a step that changes the password hash of a row sets its
\* password_changed_at to the current time, and a step that leaves the hash
\* as it is leaves password_changed_at as it is.
C20_HashAndDateWrittenTogether ==
  [][\A i \in DOMAIN users :
       /\ users'[i].present /\ users'[i].password # users[i].password =>
            users'[i].password_changed_at = DateAt(now)
       /\ users'[i].password = users[i].password =>
            users'[i].password_changed_at = users[i].password_changed_at]_vars

\* the administrator reset the password of a user whose password was old:
\* the row holds the new hash and the time of the reset
C20_Witness ==
  /\ res.route = "PATCH /api/users/:id/password" /\ res.status = 200 /\ res.target = 1
  /\ users[1].password.plain = res.password
  /\ users[1].password_changed_at = DateAt(now) /\ now > 0
  /\ users[1].fullname = "U New" /\ users[1].role = "defense-admin"

\* the role list of every gated route of the repository
MountedGate == {"defense-admin", "system-admin"}

\* C21 (as claimed): on a role-gated route an identity whose role is none of
\* user, defense-admin, system-admin (read without regard to case) gets what
\* a request without identity gets from the gate, the 401, and the handler is
\* not called.
C21_UnknownRoleIsUnauthenticated ==
  /\ res.route = "allowRoles" /\ res.allowed = MountedGate
  /\ res.by # "auth" /\ ToLower(res.user.role) \notin Roles
  => res.by = "gate" /\ res.status = allowRoles(MountedGate, NoPayload)

\* the routes mounted with a role gate
GatedRoutes ==
  {"allowRoles", "POST /api/actions", "PUT /api/actions/:id", "DELETE /api/actions/:id"}

\* C22: on a gated route the gate or the handler answers only a request on
\* which the auth middleware called next(), so with an identity attached; and
\* the gate, whatever its role list, answers 401 to a request without identity.
C22_GateOnlyAfterAuth ==
  /\ res.route \in GatedRoutes /\ res.by \in {"gate", "handler"} =>
       res.next /\ res.user # NoPayload
  /\ res.route \in GatedRoutes /\ ~res.next => res.by = "auth" /\ res.status \in {401, 403}
  /\ \A roles \in GateRoleSets : allowRoles(roles, NoPayload) = 401

\* the gate refused a user after auth had passed the request on
C22_Witness ==
  /\ res.route = "allowRoles" /\ res.allowed = MountedGate
  /\ res.next /\ res.user.id = 1 /\ res.user.role = "user"
  /\ res.by = "gate" /\ res.status = 403

\* the secret variables of the environment
SecretVars ==
  {env.JWT_ACCESS_SECRET, env.JWT_SECRET, env.ACCESS_SECRET, env.JWT_REFRESH_SECRET,
   env.REFRESH_SECRET}

\* C23 (as claimed): in production, with every secret variable set to a value
\* that is no development placeholder, the guard does not abort and the auth
\* module loads.
C23_ProdCleanSecretsLoads ==
  isProd /\ (\A v \in SecretVars : v # "" /\ ~IncludesDev(v)) => AuthModuleLoaded

\* C24 (as claimed): the auth middleware never passes on a request whose
\* identity is a user the store holds as inactive, or no longer holds: a step
\* in which it calls next() for a user id finds that user's row active.
C24_InactiveNeverPasses ==
  [][~req.next /\ req'.next /\ req'.user.id # 0 =>
       RowById(req'.user.id).present /\ RowById(req'.user.id).status = "active"]_vars

\* C25: a login answers with tokens only when the username names a row, the
\* password given matches its hash, the account is active and its password
\* is not expired; every other answer carries no token.
C25_TokensOnlyForValidLogin ==
  [][login' # login =>
       LET user == dbGetUserByUsername(Trim(login'.username))
           good == /\ user.present
                   /\ comparePassword(login'.password, user.password)
                   /\ user.status = "active"
                   /\ ~isPasswordExpired(user)
       IN /\ login'.status = 200 => good
          /\ login'.status # 200 =>
               login'.accessToken = NoToken /\ login'.refreshToken = NoToken]_vars

\* user 1, active again and with a password changed since it had expired,
\* logged in and got the pair of tokens
C25_Witness ==
  /\ login.status = 200 /\ login.username = " u1 "
  /\ login.accessToken.id = 1 /\ login.refreshToken.id = 1
  /\ Row1.password.salt = 1 /\ Row1.status = "active"

\* C26: under every configuration of the secret variables with which the
\* module loads, the secret of the access token login issued is one of the
\* middleware's candidates, and the token passes verification until it
\* expires.
C26_LoginSecretIsCandidate ==
  login.status = 200 =>
    /\ \E i \in DOMAIN CANDIDATE_ACCESS_SECRETS :
         CANDIDATE_ACCESS_SECRETS[i] = login.accessToken.secret
    /\ now < login.accessToken.exp =>
         /\ verifyWithAnySecret(login.accessToken).ok
         /\ verifyWithAnySecret(login.accessToken).payload = Claims(login.accessToken)

\* a token signed with the second variable, the first being unset, was
\* verified by the middleware, which passed the request on
C26_Witness ==
  /\ login.status = 200 /\ env.JWT_ACCESS_SECRET = "" /\ env.JWT_SECRET = "k2"
  /\ login.accessToken.secret = "k2"
  /\ req.header = IssuedHeader /\ req.pc = "done" /\ req.next

\* C27 (as claimed): whatever the interleaving of the requests POST
\* /api/actions, no incident has more than 10 actions stored.
C27_NeverMoreThanCap ==
  \A i \in IncidentIds : dbCountActionsByIncident(i) <= ActionCap

ExpiredChangeRoute == "POST /api/auth/password/expired-change"

ResourceIn(t, id) == IF id \in 1..Len(t) /\ ~t[id].deleted THEN t[id] ELSE NoResource

====
